---- MODULE Spec2Model ----
(***************************************************************************)
(* Master/Session entity model of the 3D layout viewer: Wall, Furniture,   *)
(* Room, Layout3D and LayoutRegistry of PrototypePattern.js, over an       *)
(* explicit heap of three.js scene nodes and of geometry/material          *)
(* resources.                                                              *)
(*                                                                         *)
(* Conventions.  A reference is an index into a heap sequence; 0 is null.  *)
(* Lengths are integers in quarter units (3.5 is 14) so that h/2 and       *)
(* width/2 stay exact.  Math.random-generated entity ids are drawn from a  *)
(* counter: every draw is a value never drawn before.                      *)
(***************************************************************************)
EXTENDS Integers, Sequences, FiniteSets, TLC

VARIABLES
    nodes,      \* heap of THREE.Object3D (Mesh / Group) instances
    resources,  \* heap of BufferGeometry / Material instances
    statics,    \* Wall.geometry, Wall.material, Furniture.placeholder*
    nextId,     \* source of generateId() values
    objects,    \* heap of plain JS objects (camera views and their vectors)
    layouts,    \* heap of Layout3D instances (with their Rooms, Walls, Furniture)
    masters,    \* LayoutRegistry.masters : id -> Layout3D reference (0 = no entry)
    loads,      \* per Layout3D: the loadAssets() call in progress / last finished
    thrown,     \* the Error thrown by the last call (<<>> when it returned normally)
    origin,     \* history: per Layout3D, the Layout3D it was cloned from (0: hydrated)
    disposed,   \* history: the Layout3D instances dispose() was called on
    calls,      \* history: number of transform / wall calls, of loadAssets() calls,
                \* and of handleCreateSession calls
    app,        \* React state of App: currentRoomId, sessionLayout, status, error
    runs,       \* the invocations of App.handleRoomSelect, each at its await
    viewer      \* ThreeDViewer: its scene, camera and the layoutData of its last
                \* effect; history: the Layout3D handed to it, its dispose() calls

vars == <<nodes, resources, statics, nextId, objects, layouts, masters, loads,
          thrown, origin, disposed, calls, app, runs, viewer>>

-----------------------------------------------------------------------------
(* Bounds of the model *)

MaxLayouts == 3
MaxCalls == 1
MaxLoads == 1
MaxSelects == 3
MaxOverlap == 2
MaxSessions == 1

(* Program constants *)

WallHeightQ == 14
WallThicknessQ == 2
DefaultRoomSize == 20

Q(x) == 4 * x                  \* metres -> quarter units
Half(q) == q \div 2            \* q / 2 for q in quarter units of an integer length

Zero == <<0, 0, 0>>
One == <<Q(1), Q(1), Q(1)>>
NoUrl == ""                    \* modelUrl null / undefined / absent (all falsy)
Absent == <<>>                 \* an optional field that the description omits

-----------------------------------------------------------------------------
(* The heap threaded through constructors and clone(): a record H with the *)
(* fields below; operators return [h |-> heap after, v |-> value].         *)

Heap == [nodes |-> nodes, resources |-> resources, statics |-> statics,
         nextId |-> nextId, objects |-> objects]

Ret(h, v) == [h |-> h, v |-> v]

\* "const x = r; F(x)": r is evaluated once, then F on its value
Bind(r, F(_)) == CHOOSE y \in {F(x) : x \in {r}} : TRUE

\* Math.random().toString(36).substr(2, 9)
generateId(h) == Ret([h EXCEPT !.nextId = @ + 1], h.nextId)

\* new THREE.BoxGeometry / new THREE.MeshStandardMaterial / a loaded buffer
NewResource(h, kind) ==
    Ret([h EXCEPT !.resources = Append(@, [kind |-> kind, disposed |-> FALSE])],
        Len(h.resources) + 1)

\* new THREE.Mesh(geometry, material) / new THREE.Group()
NewObject3D(h, type, geometry, material) ==
    Ret([h EXCEPT !.nodes = Append(@,
            [type |-> type, parent |-> 0, children |-> <<>>,
             position |-> Zero, rotation |-> Zero,
             scale |-> One, scaleDen |-> 1,   \* the scale is scale / (Q(1) * scaleDen)
             geometry |-> geometry, material |-> material,
             entityId |-> 0, utype |-> "", isMaster |-> FALSE])],
        Len(h.nodes) + 1)

RemoveFromSeq(s, x) == SelectSeq(s, LAMBDA y : y # x)
InSeq(s, x) == \E i \in 1..Len(s) : s[i] = x

\* Object3D.remove(object)
Object3DRemove(h, p, c) ==
    IF InSeq(h.nodes[p].children, c)
    THEN [h EXCEPT !.nodes[c].parent = 0,
                   !.nodes[p].children = RemoveFromSeq(@, c)]
    ELSE h

\* Object3D.add(object): detaches the object from its current parent first
Object3DAdd(h, p, c) ==
    IF c = p THEN h
    ELSE Bind(IF h.nodes[c].parent # 0
              THEN Object3DRemove(h, h.nodes[c].parent, c) ELSE h,
              LAMBDA h1 : [h1 EXCEPT !.nodes[c].parent = p,
                                     !.nodes[p].children = Append(@, c)])

\* a clone that copies no children: Object3D.clone(false)
Object3DCloneNoChildren(h, new, kids, i) == Ret(h, new)

\* Object3D.clone(true) as used by SkeletonUtils.clone: a new node per source
\* node, transform and userData copied by value, geometry/material by reference
RECURSIVE Object3DClone(_, _), Object3DCloneChildren(_, _, _, _)
\* a clone that gives every copied Mesh a geometry buffer of its own
Object3DCloneOwnGeometry(h, n) ==
    IF h.nodes[n].geometry = 0
    THEN Object3DCloneChildren(
             [h EXCEPT !.nodes = Append(@, [h.nodes[n] EXCEPT !.parent = 0, !.children = <<>>])],
             Len(h.nodes) + 1, h.nodes[n].children, 1)
    ELSE Bind(NewResource(h, h.resources[h.nodes[n].geometry].kind), LAMBDA g :
              Object3DCloneChildren(
                  [g.h EXCEPT !.nodes = Append(@, [h.nodes[n] EXCEPT !.parent = 0,
                                                   !.children = <<>>, !.geometry = g.v])],
                  Len(h.nodes) + 1, h.nodes[n].children, 1))

Object3DClone(h, n) ==
    Object3DCloneChildren(
        [h EXCEPT !.nodes = Append(@, [h.nodes[n] EXCEPT !.parent = 0, !.children = <<>>])],
        Len(h.nodes) + 1, h.nodes[n].children, 1)
Object3DCloneChildren(h, new, kids, i) ==
    IF i > Len(kids) THEN Ret(h, new)
    ELSE Bind(Object3DClone(h, kids[i]), LAMBDA c :
         Bind(Object3DAdd(c.h, new, c.v), LAMBDA h1 :
              Object3DCloneChildren(h1, new, kids, i + 1)))

\* the nodes of the subtree rooted at n (Object3D.traverse)
RECURSIVE Subtree(_, _)
Subtree(ns, n) ==
    {n} \cup UNION {Subtree(ns, ns[n].children[i]) : i \in 1..Len(ns[n].children)}

-----------------------------------------------------------------------------
(* Wall *)

\* a variant without the guard: every Wall makes its own BoxGeometry
WallGeometryInitAlways(h) ==
    Bind(NewResource(h, "BoxGeometry"), LAMBDA r :
         [r.h EXCEPT !.statics.wallGeometry = r.v])

\* if (!Wall.geometry) Wall.geometry = new THREE.BoxGeometry(1, 1, 1)
WallGeometryInit(h) ==
    IF h.statics.wallGeometry = 0
    THEN Bind(NewResource(h, "BoxGeometry"), LAMBDA r :
              [r.h EXCEPT !.statics.wallGeometry = r.v])
    ELSE h

\* if (!Wall.material) Wall.material = new THREE.MeshStandardMaterial(...)
WallMaterialInit(h) ==
    IF h.statics.wallMaterial = 0
    THEN Bind(NewResource(h, "Material"), LAMBDA r :
              [r.h EXCEPT !.statics.wallMaterial = r.v])
    ELSE h

\* new Wall(width, height, depth)
WallNew(h, width, height, depth) ==
    Bind(WallGeometryInit(h), LAMBDA h1 :
    Bind(WallMaterialInit(h1), LAMBDA h2 :
    Bind(NewObject3D(h2, "Mesh", h2.statics.wallGeometry, h2.statics.wallMaterial),
         LAMBDA m :
         Ret([m.h EXCEPT !.nodes[m.v].scale = <<width, height, depth>>,
                         !.nodes[m.v].entityId = generateId(m.h).v,
                         !.nodes[m.v].utype = "Wall",
                         !.nextId = generateId(m.h).h.nextId],
             [width |-> width, height |-> height, depth |-> depth, mesh |-> m.v]))))

\* Wall.setPosition(x, y, z)
WallSetPosition(h, wall, v) == [h EXCEPT !.nodes[wall.mesh].position = v]

\* Wall.clone()
WallClone(h, wall) ==
    Bind(WallNew(h, wall.width, wall.height, wall.depth), LAMBDA w :
         Ret([w.h EXCEPT !.nodes[w.v.mesh].position = h.nodes[wall.mesh].position,
                         !.nodes[w.v.mesh].rotation = h.nodes[wall.mesh].rotation,
                         !.nodes[w.v.mesh].entityId = generateId(w.h).v,
                         !.nextId = generateId(w.h).h.nextId],
             w.v))

\* Wall.dispose(): empty
WallDispose(h, wall) == h

-----------------------------------------------------------------------------
(* Furniture *)

\* if (!Furniture.placeholderGeometry) Furniture.placeholderGeometry = new THREE.BoxGeometry(2, 2, 2)
PlaceholderGeometryInit(h) ==
    IF h.statics.placeholderGeometry = 0
    THEN Bind(NewResource(h, "BoxGeometry"), LAMBDA r :
              [r.h EXCEPT !.statics.placeholderGeometry = r.v])
    ELSE h

\* if (!Furniture.placeholderMaterial) Furniture.placeholderMaterial = new THREE.MeshStandardMaterial(...)
PlaceholderMaterialInit(h) ==
    IF h.statics.placeholderMaterial = 0
    THEN Bind(NewResource(h, "Material"), LAMBDA r :
              [r.h EXCEPT !.statics.placeholderMaterial = r.v])
    ELSE h

\* new Furniture(name, type, modelUrl)
FurnitureNew(h, name, type, modelUrl) ==
    Bind(PlaceholderGeometryInit(h), LAMBDA h1 :
    Bind(PlaceholderMaterialInit(h1), LAMBDA h2 :
    Bind(NewObject3D(h2, "Mesh", h2.statics.placeholderGeometry,
                                 h2.statics.placeholderMaterial), LAMBDA m :
    Bind(NewObject3D(m.h, "Group", 0, 0), LAMBDA g :
    Bind(Object3DAdd(g.h, g.v, m.v), LAMBDA h3 :
         Ret([h3 EXCEPT !.nodes[m.v].entityId = h3.nextId,
                        !.nodes[m.v].utype = "Furniture",
                        !.nodes[g.v].entityId = h3.nextId + 1,
                        !.nodes[g.v].utype = "Furniture",
                        !.nextId = @ + 2],
             [name |-> name, type |-> type, modelUrl |-> modelUrl,
              mesh |-> m.v, root |-> g.v]))))))

\* Furniture.setPosition / setRotation / setScale
FurnitureSetPosition(h, f, v) == [h EXCEPT !.nodes[f.root].position = v]
FurnitureSetRotation(h, f, v) == [h EXCEPT !.nodes[f.root].rotation = v]
FurnitureSetScale(h, f, v) == [h EXCEPT !.nodes[f.root].scale = v]

\* Furniture.fromJSON(data)
FurnitureFromJSON(h, data) ==
    Bind(FurnitureNew(h, data.name, data.type, data.modelUrl), LAMBDA f :
    Bind(IF data.position # Absent
         THEN FurnitureSetPosition(f.h, f.v, data.position[1]) ELSE f.h, LAMBDA h1 :
    Bind(IF data.rotation # Absent
         THEN FurnitureSetRotation(h1, f.v, data.rotation[1]) ELSE h1, LAMBDA h2 :
         Ret(IF data.scale # Absent
             THEN FurnitureSetScale(h2, f.v, data.scale[1]) ELSE h2,
             f.v))))

\* a variant that keeps the source's root: clonedFurniture.root = this.root
FurnitureCloneSharedRoot(h, f) ==
    Bind(FurnitureNew(h, f.name, f.type, f.modelUrl), LAMBDA nf :
         Ret([nf.h EXCEPT !.nodes[f.root].entityId = nf.h.nextId,
                          !.nodes[f.root].utype = "Furniture",
                          !.nextId = @ + 1],
             [nf.v EXCEPT !.root = f.root]))

\* a Furniture.clone() that drops the asset reference: new Furniture(this.name, this.type)
FurnitureCloneDropsUrl(h, f) ==
    Bind(FurnitureNew(h, f.name, f.type, NoUrl), LAMBDA nf :
    Bind(Object3DClone(nf.h, f.root), LAMBDA c :
         Ret([c.h EXCEPT !.nodes[c.v].entityId = c.h.nextId,
                         !.nodes[c.v].utype = "Furniture",
                         !.nextId = @ + 1],
             [nf.v EXCEPT !.root = c.v])))

\* Furniture.clone()
FurnitureClone(h, f) ==
    Bind(FurnitureNew(h, f.name, f.type, f.modelUrl), LAMBDA nf :
    Bind(Object3DClone(nf.h, f.root), LAMBDA c :
         Ret([c.h EXCEPT !.nodes[c.v].entityId = c.h.nextId,
                         !.nodes[c.v].utype = "Furniture",
                         !.nextId = @ + 1],
             [nf.v EXCEPT !.root = c.v])))

-----------------------------------------------------------------------------
(* Room *)

\* Room.addWall(wall)
RoomAddWall(h, room, wall) ==
    Ret(Object3DAdd(h, room.group, wall.mesh),
        [room EXCEPT !.walls = Append(@, wall)])

\* Room.addFurniture(furniture)
RoomAddFurniture(h, room, f) ==
    Ret(Object3DAdd(h, room.group, f.root),
        [room EXCEPT !.furnitureList = Append(@, f)])

\* this.walls.forEach(w => this.group.remove(w.mesh))
RECURSIVE RemoveWallMeshes(_, _, _, _)
RemoveWallMeshes(h, group, walls, i) ==
    IF i > Len(walls) THEN h
    ELSE Bind(Object3DRemove(h, group, walls[i].mesh), LAMBDA h1 :
              RemoveWallMeshes(h1, group, walls, i + 1))

\* one "const w = new Wall(..); w.setPosition(..); this.addWall(w)" block
PlaceWall(r, width, depth, pos) ==
    Bind(WallNew(r.h, width, WallHeightQ, depth), LAMBDA w :
         RoomAddWall(WallSetPosition(w.h, w.v, pos), r.v, w.v))

\* Room.generateWalls(): back, front, left, right
RoomGenerateWalls(h, room) ==
    Bind(RemoveWallMeshes(h, room.group, room.walls, 1), LAMBDA h0 :
    Bind(PlaceWall(Ret(h0, [room EXCEPT !.walls = <<>>]), room.width, WallThicknessQ,
                   <<0, Half(WallHeightQ), 0 - Half(room.depth)>>), LAMBDA back :
    Bind(PlaceWall(back, room.width, WallThicknessQ,
                   <<0, Half(WallHeightQ), Half(room.depth)>>), LAMBDA front :
    Bind(PlaceWall(front, WallThicknessQ, room.depth,
                   <<0 - Half(room.width), Half(WallHeightQ), 0>>), LAMBDA left :
         PlaceWall(left, WallThicknessQ, room.depth,
                   <<Half(room.width), Half(WallHeightQ), 0>>)))))

\* new Room(name, width = 20, depth = 20)
RoomNew(h, name, width, depth) ==
    Bind(NewObject3D(h, "Group", 0, 0), LAMBDA g :
         RoomGenerateWalls(
             [g.h EXCEPT !.nodes[g.v].entityId = g.h.nextId,
                         !.nodes[g.v].utype = "Room",
                         !.nextId = @ + 1],
             [name |-> name,
              width |-> IF width = Absent THEN Q(DefaultRoomSize) ELSE width[1],
              depth |-> IF depth = Absent THEN Q(DefaultRoomSize) ELSE depth[1],
              furnitureList |-> <<>>, walls |-> <<>>, group |-> g.v]))

\* data.furniture.forEach(itemData => room.addFurniture(Furniture.fromJSON(itemData)))
RECURSIVE HydrateFurniture(_, _, _)
HydrateFurniture(r, items, i) ==
    IF i > Len(items) THEN r
    ELSE Bind(FurnitureFromJSON(r.h, items[i]), LAMBDA f :
         Bind(RoomAddFurniture(f.h, r.v, f.v), LAMBDA r1 :
              HydrateFurniture(r1, items, i + 1)))

\* Room.fromJSON(data)
RoomFromJSON(h, data) ==
    Bind(RoomNew(h, data.name, data.width, data.depth), LAMBDA room :
         IF data.furniture # Absent
         THEN HydrateFurniture(room, data.furniture[1], 1)
         ELSE room)

\* this.furnitureList.forEach(item => clonedRoom.addFurniture(item.clone()))
RECURSIVE CloneFurnitureList(_, _, _)
CloneFurnitureList(r, items, i) ==
    IF i > Len(items) THEN r
    ELSE Bind(FurnitureClone(r.h, items[i]), LAMBDA f :
         Bind(RoomAddFurniture(f.h, r.v, f.v), LAMBDA r1 :
              CloneFurnitureList(r1, items, i + 1)))

\* a Room.clone() that also clones the walls of the source Room
RECURSIVE CloneWallList(_, _, _)
CloneWallList(r, walls, i) ==
    IF i > Len(walls) THEN r
    ELSE Bind(WallClone(r.h, walls[i]), LAMBDA w :
         Bind(RoomAddWall(w.h, r.v, w.v), LAMBDA r1 :
              CloneWallList(r1, walls, i + 1)))
RoomCloneCopiesWalls(h, room) ==
    Bind(RoomNew(h, room.name, <<room.width>>, <<room.depth>>), LAMBDA new :
    Bind(CloneWallList(new, room.walls, 1), LAMBDA rw :
    Bind(CloneFurnitureList(rw, room.furnitureList, 1), LAMBDA r :
         Ret([r.h EXCEPT !.nodes[r.v.group].position = h.nodes[room.group].position,
                         !.nodes[r.v.group].entityId = r.h.nextId,
                         !.nextId = @ + 1],
             r.v))))

\* Room.clone()
RoomClone(h, room) ==
    Bind(RoomNew(h, room.name, <<room.width>>, <<room.depth>>), LAMBDA new :
    Bind(CloneFurnitureList(new, room.furnitureList, 1), LAMBDA r :
         Ret([r.h EXCEPT !.nodes[r.v.group].position = h.nodes[room.group].position,
                         !.nodes[r.v.group].entityId = r.h.nextId,
                         !.nextId = @ + 1],
             r.v)))

-----------------------------------------------------------------------------
(* Layout3D *)

\* a constructor that gives the root a generated node id, like every other level
Layout3DNewFreshId(h, id, description) ==
    Bind(NewObject3D(h, "Group", 0, 0), LAMBDA g :
         Ret([g.h EXCEPT !.nodes[g.v].entityId = g.h.nextId,
                         !.nodes[g.v].utype = "Layout3D",
                         !.nodes[g.v].isMaster = TRUE,
                         !.nextId = @ + 1],
             [id |-> id, description |-> description, rooms |-> <<>>,
              cameraView |-> 0, group |-> g.v]))

\* new Layout3D(id, description)
Layout3DNew(h, id, description) ==
    Bind(NewObject3D(h, "Group", 0, 0), LAMBDA g :
         Ret([g.h EXCEPT !.nodes[g.v].entityId = id,
                         !.nodes[g.v].utype = "Layout3D",
                         !.nodes[g.v].isMaster = TRUE],
             [id |-> id, description |-> description, rooms |-> <<>>,
              cameraView |-> 0, group |-> g.v]))

\* Layout3D.addRoom(room)
Layout3DAddRoom(h, layout, room) ==
    Ret(Object3DAdd(h, layout.group, room.group),
        [layout EXCEPT !.rooms = Append(@, room)])

\* the cameraView object of a parsed description: { position: {..}, target: {..} }
NewCameraView(h, cv) ==
    Ret([h EXCEPT !.objects = @ \o
            <<[kind |-> "vector", xyz |-> cv.position, position |-> 0, target |-> 0],
              [kind |-> "vector", xyz |-> cv.target, position |-> 0, target |-> 0],
              [kind |-> "view", xyz |-> Zero, position |-> Len(h.objects) + 1,
               target |-> Len(h.objects) + 2]>>],
        Len(h.objects) + 3)

\* data.rooms.forEach(roomData => layout.addRoom(Room.fromJSON(roomData)))
RECURSIVE HydrateRooms(_, _, _)
HydrateRooms(l, items, i) ==
    IF i > Len(items) THEN l
    ELSE Bind(RoomFromJSON(l.h, items[i]), LAMBDA r :
         Bind(Layout3DAddRoom(r.h, l.v, r.v), LAMBDA l1 :
              HydrateRooms(l1, items, i + 1)))

\* Layout3D.fromJSON(data)
Layout3DFromJSON(h, data) ==
    Bind(Layout3DNew(h, data.id, data.name), LAMBDA l :
    Bind(IF data.cameraView # Absent
         THEN Bind(NewCameraView(l.h, data.cameraView[1]), LAMBDA cv :
                   Ret(cv.h, [l.v EXCEPT !.cameraView = cv.v]))
         ELSE l, LAMBDA l1 :
         IF data.rooms # Absent THEN HydrateRooms(l1, data.rooms[1], 1) ELSE l1))

\* a shallow variant: this.rooms.forEach(room => clonedLayout.addRoom(room))
RECURSIVE CloneRoomsShallow(_, _, _)
CloneRoomsShallow(l, rooms, i) ==
    IF i > Len(rooms) THEN l
    ELSE Bind(Layout3DAddRoom(l.h, l.v, rooms[i]), LAMBDA l1 :
              CloneRoomsShallow(l1, rooms, i + 1))

\* this.rooms.forEach(room => clonedLayout.addRoom(room.clone()))
RECURSIVE CloneRooms(_, _, _)
CloneRooms(l, rooms, i) ==
    IF i > Len(rooms) THEN l
    ELSE Bind(RoomClone(l.h, rooms[i]), LAMBDA r :
         Bind(Layout3DAddRoom(r.h, l.v, r.v), LAMBDA l1 :
              CloneRooms(l1, rooms, i + 1)))

\* a Layout3D.clone() without "clonedLayout.group.userData.isMaster = false"
Layout3DCloneKeepsFlag(h, layout) ==
    Bind(Layout3DNew(h, layout.id, layout.description), LAMBDA new :
    Bind(IF layout.cameraView # 0
         THEN Ret([new.h EXCEPT !.objects = Append(@, h.objects[layout.cameraView])],
                  [new.v EXCEPT !.cameraView = Len(h.objects) + 1])
         ELSE new, LAMBDA l1 :
         CloneRooms(l1, layout.rooms, 1)))

\* Layout3D.clone()
Layout3DClone(h, layout) ==
    Bind(Layout3DNew(h, layout.id, layout.description), LAMBDA new :
    Bind(IF layout.cameraView # 0
         THEN Ret([new.h EXCEPT !.objects = Append(@, h.objects[layout.cameraView])],
                  [new.v EXCEPT !.cameraView = Len(h.objects) + 1])
         ELSE new, LAMBDA l1 :
    Bind(CloneRooms(l1, layout.rooms, 1), LAMBDA l2 :
         Ret([l2.h EXCEPT !.nodes[l2.v.group].isMaster = FALSE], l2.v))))

-----------------------------------------------------------------------------
(* Furniture.loadModel and Layout3D.loadAssets *)

Max2(a, b) == IF a >= b THEN a ELSE b
VecSub(a, b) == <<a[1] - b[1], a[2] - b[2], a[3] - b[3]>>
VecScale(k, a) == <<k * a[1], k * a[2], k * a[3]>>

\* the BufferGeometry of a fetched asset: its vertices span the box asset
\* (centre and size, in the frame of the Mesh that carries it)
NewBufferGeometry(h, asset) ==
    Ret([h EXCEPT !.resources = Append(@, [kind |-> "LoadedGeometry", disposed |-> FALSE,
                                           box |-> asset])],
        Len(h.resources) + 1)

\* a loader that hands out one scene object to every load: the scene of an
\* earlier load, if there is one, is returned again
NewGltfSceneCached(h, asset) ==
    IF \E n \in 1..Len(h.nodes) : h.nodes[n].type = "Group" /\ h.nodes[n].utype = "gltf"
    THEN Ret(h, CHOOSE n \in 1..Len(h.nodes) :
                    h.nodes[n].type = "Group" /\ h.nodes[n].utype = "gltf")
    ELSE Bind(NewObject3D(h, "Group", 0, 0), LAMBDA s :
         Bind(NewBufferGeometry(s.h, asset), LAMBDA g :
         Bind(NewResource(g.h, "LoadedMaterial"), LAMBDA mt :
         Bind(NewObject3D(mt.h, "Mesh", g.v, mt.v), LAMBDA m :
              Ret(Object3DAdd([m.h EXCEPT !.nodes[s.v].utype = "gltf"], s.v, m.v), s.v)))))

\* gltf.scene of a fetched asset: a Group over one Mesh with its own buffers
NewGltfScene(h, asset) ==
    Bind(NewObject3D(h, "Group", 0, 0), LAMBDA s :
    Bind(NewBufferGeometry(s.h, asset), LAMBDA g :
    Bind(NewResource(g.h, "LoadedMaterial"), LAMBDA mt :
    Bind(NewObject3D(mt.h, "Mesh", g.v, mt.v), LAMBDA m :
         Ret(Object3DAdd(m.h, s.v, m.v), s.v)))))

\* new THREE.Box3().setFromObject(model), box.getSize, box.getCenter for a
\* gltf.scene that is not attached yet: the box of its Mesh's geometry under
\* the scene's own position and scale (1 and 0 when the loader returns it)
Box3SetFromObject(h, model) ==
    [center |-> <<h.nodes[model].position[1]
                    + (h.nodes[model].scale[1] * h.resources[h.nodes[h.nodes[model].children[1]].geometry].box.center[1])
                      \div (Q(1) * h.nodes[model].scaleDen),
                  h.nodes[model].position[2]
                    + (h.nodes[model].scale[2] * h.resources[h.nodes[h.nodes[model].children[1]].geometry].box.center[2])
                      \div (Q(1) * h.nodes[model].scaleDen),
                  h.nodes[model].position[3]
                    + (h.nodes[model].scale[3] * h.resources[h.nodes[h.nodes[model].children[1]].geometry].box.center[3])
                      \div (Q(1) * h.nodes[model].scaleDen)>>,
     size |-> <<(h.nodes[model].scale[1] * h.resources[h.nodes[h.nodes[model].children[1]].geometry].box.size[1])
                      \div (Q(1) * h.nodes[model].scaleDen),
                (h.nodes[model].scale[2] * h.resources[h.nodes[h.nodes[model].children[1]].geometry].box.size[2])
                      \div (Q(1) * h.nodes[model].scaleDen),
                (h.nodes[model].scale[3] * h.resources[h.nodes[h.nodes[model].children[1]].geometry].box.size[3])
                      \div (Q(1) * h.nodes[model].scaleDen)>>]

\* a normalization that takes the width for the largest dimension
NormalizeByWidth(h, model, asset) ==
    IF asset.size[1] > 0
    THEN [h EXCEPT !.nodes[model].position = VecSub(@, asset.center),
                   !.nodes[model].scale = VecScale(Q(1), @),
                   !.nodes[model].scaleDen = @ * asset.size[1]]
    ELSE [h EXCEPT !.nodes[model].position = VecSub(@, asset.center)]

\* the normalization block: recentre on the bounding box, scale by 1 / maxDim
\* (x * (1 / maxDim) with maxDim = q / Q(1) is x * Q(1) / q)
Normalize(h, model, asset) ==
    IF Max2(asset.size[1], Max2(asset.size[2], asset.size[3])) > 0
    THEN [h EXCEPT !.nodes[model].position = VecSub(@, asset.center),
                   !.nodes[model].scale = VecScale(Q(1), @),
                   !.nodes[model].scaleDen =
                       @ * Max2(asset.size[1], Max2(asset.size[2], asset.size[3]))]
    ELSE [h EXCEPT !.nodes[model].position = VecSub(@, asset.center)]

\* "Replace placeholder with real model": this.root.remove(this.mesh);
\* this.root.add(model); this.mesh = model
ReplaceMesh(h, f, model) ==
    Bind(Object3DRemove(h, f.root, f.mesh), LAMBDA h1 :
         Ret(Object3DAdd(h1, f.root, model), [f EXCEPT !.mesh = model]))

\* loadModel after "await loader.loadAsync(this.modelUrl)" has returned gltf
FurnitureLoaded(h, f, asset) ==
    Bind(NewGltfScene(h, asset), LAMBDA s :
    Bind(Normalize(s.h, s.v, Box3SetFromObject(s.h, s.v)), LAMBDA h1 :
         ReplaceMesh(h1, f, s.v)))

\* a loadModel without the try / catch: a failed fetch rejects its promise
LoadModelOutcomeUncaught(ok) == IF ok THEN "fulfilled" ELSE "rejected"

\* how the promise of loadModel settles once its fetch has settled: the
\* try / catch around the await turns a failed fetch into a normal return
LoadModelOutcome(ok) == "fulfilled"

\* a loadModel without "if (!this.modelUrl) return": it always fetches
LoadModelStartAlwaysFetches(f, r, k) ==
    [room |-> r, idx |-> k, fetch |-> "pending", promise |-> "pending"]

\* the promise of loadModel() at the time loadAssets() calls it
LoadModelStart(f, r, k) ==
    IF f.modelUrl = NoUrl
    THEN [room |-> r, idx |-> k, fetch |-> "none", promise |-> "fulfilled"]
    ELSE [room |-> r, idx |-> k, fetch |-> "pending", promise |-> "pending"]

\* this.rooms.forEach(room => room.furnitureList.forEach(f => promises.push(f.loadModel(loader))))
RECURSIVE GatherTasks(_, _, _)
GatherTasks(layout, r, k) ==
    IF r > Len(layout.rooms) THEN <<>>
    ELSE IF k > Len(layout.rooms[r].furnitureList) THEN GatherTasks(layout, r + 1, 1)
    ELSE <<LoadModelStart(layout.rooms[r].furnitureList[k], r, k)>>
         \o GatherTasks(layout, r, k + 1)

\* a barrier that lets go as soon as one promise has fulfilled
PromiseAny(tasks) ==
    IF \E i \in 1..Len(tasks) : tasks[i].promise = "fulfilled" THEN "fulfilled"
    ELSE IF \A i \in 1..Len(tasks) : tasks[i].promise = "rejected" THEN "rejected"
    ELSE "pending"

\* Promise.all(promises): rejects with the first rejection, fulfils when all have
PromiseAll(tasks) ==
    IF \E i \in 1..Len(tasks) : tasks[i].promise = "rejected" THEN "rejected"
    ELSE IF \A i \in 1..Len(tasks) : tasks[i].promise = "fulfilled" THEN "fulfilled"
    ELSE "pending"

-----------------------------------------------------------------------------
(* dispose() *)

\* a dispose() that is not idempotent: a second call on a handle undoes the first
DisposeResourcesToggles(h, S) ==
    [h EXCEPT !.resources =
        [i \in DOMAIN @ |-> IF i \in S THEN [@[i] EXCEPT !.disposed = ~@] ELSE @[i]]]

\* geometry.dispose() / material.dispose() on every handle of S
DisposeResources(h, S) ==
    [h EXCEPT !.resources =
        [i \in DOMAIN @ |-> IF i \in S THEN [@[i] EXCEPT !.disposed = TRUE] ELSE @[i]]]

\* the geometry and material handles of the Mesh nodes under n (traverse)
MeshResources(ns, n) ==
    UNION {{ns[x].geometry, ns[x].material} : x \in {y \in Subtree(ns, n) : ns[y].type = "Mesh"}}
    \ {0}

\* Furniture.dispose(); "this.mesh !== Furniture.placeholderGeometry" compares an
\* Object3D with a BufferGeometry and is true of every mesh
FurnitureDispose(h, f) ==
    IF f.mesh # 0 /\ TRUE /\ f.modelUrl # NoUrl
    THEN DisposeResources(h, MeshResources(h.nodes, f.mesh))
    ELSE h

RECURSIVE DisposeWalls(_, _, _), DisposeFurnitureList(_, _, _), DisposeRooms(_, _, _)
DisposeWalls(h, walls, i) ==
    IF i > Len(walls) THEN h
    ELSE Bind(WallDispose(h, walls[i]), LAMBDA h1 : DisposeWalls(h1, walls, i + 1))
DisposeFurnitureList(h, items, i) ==
    IF i > Len(items) THEN h
    ELSE Bind(FurnitureDispose(h, items[i]), LAMBDA h1 :
              DisposeFurnitureList(h1, items, i + 1))

\* Room.dispose()
RoomDispose(h, room) ==
    Bind(DisposeWalls(h, room.walls, 1), LAMBDA h1 :
         DisposeFurnitureList(h1, room.furnitureList, 1))

DisposeRooms(h, rooms, i) ==
    IF i > Len(rooms) THEN h
    ELSE Bind(RoomDispose(h, rooms[i]), LAMBDA h1 : DisposeRooms(h1, rooms, i + 1))

\* Layout3D.dispose()
Layout3DDispose(h, layout) == DisposeRooms(h, layout.rooms, 1)

-----------------------------------------------------------------------------
(* LayoutRegistry *)

\* a registerMaster that keeps the entry an id already has
RegistrySetKeepsFirst(m, id, l) == IF m[id] # 0 THEN m ELSE [m EXCEPT ![id] = l]

\* LayoutRegistry.registerMaster(id, layout): this.masters.set(id, layout)
RegistrySet(m, id, l) == [m EXCEPT ![id] = l]

\* the test "if (!master)" of getSessionClone on this.masters.get(id)
RegistryMiss(m, id) == m[id] = 0

\* new Error(`Layout ${id} not found in registry.`)
NotFound(id) == <<"Layout", id, "not found in registry.">>

-----------------------------------------------------------------------------
(* Inputs: layout descriptions, transform values, fetched assets *)

LayoutIds == {101, 102}

Sofa == [name |-> "Sofa", type |-> "Seating", modelUrl |-> "sofa.glb",
         position |-> <<Zero>>, rotation |-> Absent, scale |-> Absent]
Lamp == [name |-> "Lamp", type |-> "Light", modelUrl |-> "lamp.glb",
         position |-> Absent, rotation |-> <<(<<0, Q(1), 0>>)>>,
         scale |-> <<(<<Q(2), Q(2), Q(2)>>)>>]
Crate == [name |-> "Crate", type |-> "Storage", modelUrl |-> NoUrl,
          position |-> <<(<<Q(1), 0, 0>>)>>, rotation |-> Absent, scale |-> Absent]

Descriptions ==
    { [id |-> 101, name |-> "Studio",
       cameraView |-> <<[position |-> <<0, Q(5), Q(5)>>, target |-> Zero]>>,
       rooms |-> << <<[name |-> "Living", width |-> <<Q(4)>>, depth |-> <<Q(6)>>,
                       furniture |-> <<(<<Sofa, Lamp>>)>>]>> >>],
      [id |-> 102, name |-> "Store", cameraView |-> Absent,
       rooms |-> << <<[name |-> "Depot", width |-> Absent, depth |-> Absent,
                       furniture |-> <<(<<Crate>>)>>]>> >>] }

\* descriptions that lack a structural field: data.id, data.rooms, a room's
\* name, a furniture's name (a missing property reads as undefined)
NoId == 0
NoName == "undefined"
MalformedDescriptions ==
    { [id |-> NoId, name |-> "NoId", cameraView |-> Absent,
       rooms |-> << <<[name |-> "Hall", width |-> <<Q(4)>>, depth |-> <<Q(4)>>,
                       furniture |-> <<(<<Crate>>)>>]>> >>],
      [id |-> 101, name |-> "NoRooms", cameraView |-> Absent, rooms |-> Absent],
      [id |-> 101, name |-> "NoRoomName", cameraView |-> Absent,
       rooms |-> << <<[name |-> NoName, width |-> <<Q(4)>>, depth |-> <<Q(4)>>,
                       furniture |-> Absent]>> >>],
      [id |-> 102, name |-> "NoFurnitureName", cameraView |-> Absent,
       rooms |-> << <<[name |-> "Hall", width |-> Absent, depth |-> Absent,
                       furniture |-> <<(<<[Crate EXCEPT !.name = NoName]>>)>>]>> >>] }

Vectors == {<<Q(1), 0, Q(1)>>}

Assets == { [center |-> <<Q(2), Q(1), 0>>, size |-> <<Q(4), Q(2), Q(2)>>] }

\* bounding boxes of fetched assets: largest dimension 4 off the origin, the
\* unit box at the origin, a box whose height is its largest dimension, and
\* a single point (largest dimension 0)
Boxes == Assets \cup
         { [center |-> Zero, size |-> One],
           [center |-> <<0, Q(1), 0>>, size |-> <<Q(1), Q(2), Q(1)>>],
           [center |-> <<Q(1), 0, 0>>, size |-> Zero] }

-----------------------------------------------------------------------------
(* State machine *)

Refs == 1..Len(layouts)
RoomsOf(l) == 1..Len(layouts[l].rooms)
FurnitureOf(l, r) == 1..Len(layouts[l].rooms[r].furnitureList)
WallsOf(l, r) == 1..Len(layouts[l].rooms[r].walls)

IdleLoad == [state |-> "idle", tasks |-> <<>>]

Commit(h) ==
    /\ nodes' = h.nodes
    /\ resources' = h.resources
    /\ statics' = h.statics
    /\ nextId' = h.nextId
    /\ objects' = h.objects

HeapUnchanged == UNCHANGED <<nodes, resources, statics, nextId, objects>>

\* useState(null) x 2, useState("Select a room to view 3D Layout"), useState(null);
\* spread: sessionLayout holds the copy { ...sessionLayout, _version }
AppInit == [currentRoomId |-> 0, sessionLayout |-> 0, spread |-> FALSE,
            status |-> "Select a room", error |-> <<>>]

\* ThreeDViewer before App first renders it
ViewerInit == [mounted |-> FALSE, scene |-> 0, layoutData |-> <<>>,
               cameraPosition |-> Zero, target |-> Zero,
               handed |-> {}, disposeCalls |-> <<>>]

Init ==
    /\ nodes = <<>>
    /\ resources = <<>>
    /\ statics = [wallGeometry |-> 0, wallMaterial |-> 0,
                  placeholderGeometry |-> 0, placeholderMaterial |-> 0]
    /\ nextId = 1
    /\ objects = <<>>
    /\ layouts = <<>>
    /\ masters = [i \in LayoutIds |-> 0]
    /\ loads = <<>>
    /\ thrown = <<>>
    /\ origin = <<>>
    /\ disposed = {}
    /\ calls = [transform |-> 0, load |-> 0, session |-> 0]
    /\ app = AppInit
    /\ runs = <<>>
    /\ viewer = ViewerInit

\* const master = Layout3D.fromJSON(data)
Hydrate(d) ==
    /\ Len(layouts) < MaxLayouts
    /\ \E l \in {Layout3DFromJSON(Heap, d)} :
          /\ Commit(l.h)
          /\ layouts' = Append(layouts, l.v)
    /\ loads' = Append(loads, IdleLoad)
    /\ origin' = Append(origin, 0)
    /\ thrown' = <<>>
    /\ UNCHANGED <<masters, disposed, calls, app, runs>>
    /\ UNCHANGED viewer

\* registry.registerMaster(id, layout)
RegisterMaster(id, l) ==
    /\ masters' = RegistrySet(masters, id, l)
    /\ thrown' = <<>>
    /\ HeapUnchanged
    /\ UNCHANGED <<layouts, loads, origin, disposed, calls, app, runs>>
    /\ UNCHANGED viewer

\* a getSessionClone(id) that stores a fallback entry under id before it throws
GetSessionCloneMissRegisters(id) ==
    /\ RegistryMiss(masters, id)
    /\ masters' = RegistrySet(masters, id, Len(layouts))
    /\ thrown' = NotFound(id)
    /\ HeapUnchanged
    /\ UNCHANGED <<layouts, loads, origin, disposed, calls, app, runs>>
    /\ UNCHANGED viewer

\* registry.getSessionClone(id) for an id without a master: throws
GetSessionCloneMiss(id) ==
    /\ RegistryMiss(masters, id)
    /\ thrown' = NotFound(id)
    /\ HeapUnchanged
    /\ UNCHANGED <<layouts, masters, loads, origin, disposed, calls, app, runs>>
    /\ UNCHANGED viewer

\* layout.clone(), directly or as "return master.clone()" of getSessionClone
CloneOf(l) ==
    /\ Len(layouts) < MaxLayouts
    /\ \E c \in {Layout3DClone(Heap, layouts[l])} :
          /\ Commit(c.h)
          /\ layouts' = Append(layouts, c.v)
    /\ loads' = Append(loads, IdleLoad)
    /\ origin' = Append(origin, l)
    /\ thrown' = <<>>
    /\ UNCHANGED <<masters, disposed, calls, app, runs>>
    /\ UNCHANGED viewer

\* registry.getSessionClone(id) for a registered id
GetSessionCloneHit(id) ==
    /\ ~RegistryMiss(masters, id)
    /\ CloneOf(masters[id])

\* layout.clone()
Clone(l) == CloneOf(l)

\* furniture.setPosition / setRotation / setScale on a Furniture of layout l
SetTransform(l, r, k, op, v) ==
    /\ calls.transform < MaxCalls
    /\ \E f \in {layouts[l].rooms[r].furnitureList[k]} :
          Commit(CASE op = "setPosition" -> FurnitureSetPosition(Heap, f, v)
                   [] op = "setRotation" -> FurnitureSetRotation(Heap, f, v)
                   [] op = "setScale" -> FurnitureSetScale(Heap, f, v))
    /\ calls' = [calls EXCEPT !.transform = @ + 1]
    /\ thrown' = <<>>
    /\ UNCHANGED <<layouts, masters, loads, origin, disposed, app, runs>>
    /\ UNCHANGED viewer

\* a write to the transform of the public layout.group (r = 0) or of the
\* public group of its r-th Room: group.position / rotation / scale .set(..)
SetGroupTransform(l, r, op, v) ==
    /\ calls.transform < MaxCalls
    /\ \E g \in {IF r = 0 THEN layouts[l].group ELSE layouts[l].rooms[r].group} :
          nodes' = CASE op = "position" -> [nodes EXCEPT ![g].position = v]
                     [] op = "rotation" -> [nodes EXCEPT ![g].rotation = v]
                     [] op = "scale" -> [nodes EXCEPT ![g].scale = v]
    /\ calls' = [calls EXCEPT !.transform = @ + 1]
    /\ thrown' = <<>>
    /\ UNCHANGED <<resources, statics, nextId, objects>>
    /\ UNCHANGED <<layouts, masters, loads, origin, disposed, app, runs, viewer>>

\* wall.setPosition on a Wall of layout l
MoveWall(l, r, w, v) ==
    /\ calls.transform < MaxCalls
    /\ Commit(WallSetPosition(Heap, layouts[l].rooms[r].walls[w], v))
    /\ calls' = [calls EXCEPT !.transform = @ + 1]
    /\ thrown' = <<>>
    /\ UNCHANGED <<layouts, masters, loads, origin, disposed, app, runs>>
    /\ UNCHANGED viewer

\* room.addWall(new Wall(..)) on a Room of layout l
AddWall(l, r) ==
    /\ calls.transform < MaxCalls
    /\ \E w \in {WallNew(Heap, Q(1), WallHeightQ, WallThicknessQ)} :
       \E a \in {RoomAddWall(w.h, layouts[l].rooms[r], w.v)} :
          /\ Commit(a.h)
          /\ layouts' = [layouts EXCEPT ![l].rooms[r] = a.v]
    /\ calls' = [calls EXCEPT !.transform = @ + 1]
    /\ thrown' = <<>>
    /\ UNCHANGED <<masters, loads, origin, disposed, app, runs>>
    /\ UNCHANGED viewer

\* room.addWall(wall.clone()) for a Wall of the same Room
AddWallClone(l, r, w) ==
    /\ calls.transform < MaxCalls
    /\ \E c \in {WallClone(Heap, layouts[l].rooms[r].walls[w])} :
       \E a \in {RoomAddWall(c.h, layouts[l].rooms[r], c.v)} :
          /\ Commit(a.h)
          /\ layouts' = [layouts EXCEPT ![l].rooms[r] = a.v]
    /\ calls' = [calls EXCEPT !.transform = @ + 1]
    /\ thrown' = <<>>
    /\ UNCHANGED <<masters, loads, origin, disposed, app, runs>>
    /\ UNCHANGED viewer

\* room.generateWalls() on a Room of layout l
GenerateWalls(l, r) ==
    /\ calls.transform < MaxCalls
    /\ \E a \in {RoomGenerateWalls(Heap, layouts[l].rooms[r])} :
          /\ Commit(a.h)
          /\ layouts' = [layouts EXCEPT ![l].rooms[r] = a.v]
    /\ calls' = [calls EXCEPT !.transform = @ + 1]
    /\ thrown' = <<>>
    /\ UNCHANGED <<masters, loads, origin, disposed, app, runs>>
    /\ UNCHANGED viewer

\* layout.cameraView.position.x = .. (or .target): a write to a coordinate of
\* the object the field holds
SetCameraCoordinate(l, field, v) ==
    /\ calls.transform < MaxCalls
    /\ layouts[l].cameraView # 0
    /\ objects' = [objects EXCEPT
                      ![IF field = "position" THEN objects[layouts[l].cameraView].position
                        ELSE objects[layouts[l].cameraView].target].xyz = v]
    /\ calls' = [calls EXCEPT !.transform = @ + 1]
    /\ thrown' = <<>>
    /\ UNCHANGED <<nodes, resources, statics, nextId, layouts, masters, loads, origin, disposed, app, runs>>
    /\ UNCHANGED viewer

\* layout.cameraView.position = {x, y, z} (or .target): a write to the field
SetCameraField(l, field, v) ==
    /\ calls.transform < MaxCalls
    /\ layouts[l].cameraView # 0
    /\ objects' = [Append(objects, [kind |-> "vector", xyz |-> v, position |-> 0, target |-> 0])
                      EXCEPT ![layouts[l].cameraView] =
                         IF field = "position" THEN [@ EXCEPT !.position = Len(objects) + 1]
                         ELSE [@ EXCEPT !.target = Len(objects) + 1]]
    /\ calls' = [calls EXCEPT !.transform = @ + 1]
    /\ thrown' = <<>>
    /\ UNCHANGED <<nodes, resources, statics, nextId, layouts, masters, loads, origin, disposed, app, runs>>
    /\ UNCHANGED viewer

\* layout.loadAssets() up to "await Promise.all(promises)"
LoadAssets(l) ==
    /\ loads[l].state # "pending"
    /\ calls.load < MaxLoads
    /\ loads' = [loads EXCEPT ![l] = [state |-> "pending",
                                      tasks |-> GatherTasks(layouts[l], 1, 1)]]
    /\ calls' = [calls EXCEPT !.load = @ + 1]
    /\ thrown' = <<>>
    /\ HeapUnchanged
    /\ UNCHANGED <<layouts, masters, origin, disposed, app, runs>>
    /\ UNCHANGED viewer

\* loader.loadAsync of task t resolves with an asset: loadModel runs to its end
FetchOk(l, t, asset) ==
    /\ loads[l].state = "pending"
    /\ loads[l].tasks[t].fetch = "pending"
    /\ \E r \in {loads[l].tasks[t].room} : \E k \in {loads[l].tasks[t].idx} :
       \E f \in {FurnitureLoaded(Heap, layouts[l].rooms[r].furnitureList[k], asset)} :
          /\ Commit(f.h)
          /\ layouts' = [layouts EXCEPT ![l].rooms[r].furnitureList[k] = f.v]
    /\ loads' = [loads EXCEPT ![l].tasks[t].fetch = "ok",
                              ![l].tasks[t].promise = LoadModelOutcome(TRUE)]
    /\ UNCHANGED <<masters, thrown, origin, disposed, calls, app, runs>>
    /\ UNCHANGED viewer

\* a loadModel whose promise is left unsettled when its fetch rejects
FetchFailHangs(l, t) ==
    /\ loads[l].state = "pending"
    /\ loads[l].tasks[t].fetch = "pending"
    /\ loads' = [loads EXCEPT ![l].tasks[t].fetch = "failed"]
    /\ HeapUnchanged
    /\ UNCHANGED <<layouts, masters, thrown, origin, disposed, calls, app, runs>>
    /\ UNCHANGED viewer

\* loader.loadAsync of task t rejects: the catch block logs and returns
FetchFail(l, t) ==
    /\ loads[l].state = "pending"
    /\ loads[l].tasks[t].fetch = "pending"
    /\ loads' = [loads EXCEPT ![l].tasks[t].fetch = "failed",
                              ![l].tasks[t].promise = LoadModelOutcome(FALSE)]
    /\ HeapUnchanged
    /\ UNCHANGED <<layouts, masters, thrown, origin, disposed, calls, app, runs>>
    /\ UNCHANGED viewer

\* "await Promise.all(promises)" settles: loadAssets() returns, or throws
LoadAssetsSettle(l) ==
    /\ loads[l].state = "pending"
    /\ PromiseAll(loads[l].tasks) # "pending"
    /\ loads' = [loads EXCEPT ![l].state =
                    IF PromiseAll(loads[l].tasks) = "fulfilled"
                    THEN "resolved" ELSE "rejected"]
    /\ HeapUnchanged
    /\ UNCHANGED <<layouts, masters, thrown, origin, disposed, calls, app, runs>>
    /\ UNCHANGED viewer

\* a dispose() that also deletes the Registry entries holding the layout
DisposeUnregisters(l) ==
    /\ Commit(Layout3DDispose(Heap, layouts[l]))
    /\ disposed' = disposed \cup {l}
    /\ thrown' = <<>>
    /\ masters' = [id \in LayoutIds |-> IF masters[id] = l THEN 0 ELSE masters[id]]
    /\ UNCHANGED <<layouts, loads, origin, calls, app, runs, viewer>>

\* layout.dispose()
Dispose(l) ==
    /\ Commit(Layout3DDispose(Heap, layouts[l]))
    /\ disposed' = disposed \cup {l}
    /\ thrown' = <<>>
    /\ UNCHANGED <<layouts, masters, loads, origin, calls, app, runs>>
    /\ UNCHANGED viewer

-----------------------------------------------------------------------------
(* App: handleRoomSelect, handleCreateSession, handleModifySession *)

\* what the server answers to GET /api/layout/:id (0: the request fails)
HttpStatuses == {200, 404, 500, 0}

\* the Error that handleRoomSelect throws, or that fetch rejects with
FetchError(status) ==
    CASE status = 404 -> "Layout not found (404)"
      [] status = 0 -> "Failed to fetch"
      [] OTHER -> "HTTP error! status: 500"

\* the catch block of handleRoomSelect: setError(err.message) and setStatus
RoomLoadError(a, message) ==
    [a EXCEPT !.error = <<message>>,
              !.status = IF message \in {"Layout not found (404)", "Layout Empty"}
                         THEN "No 3D layout available"
                         ELSE "Backend Server is Offline"]

\* the body of the server's response: the layout stored under id, or {}
EmptyData == [id |-> NoId, name |-> "", cameraView |-> Absent, rooms |-> Absent]
ResponseData(id) == {d \in Descriptions : d.id = id} \cup {EmptyData}

\* handleRoomSelect(roomId, roomName) up to "await fetch(..)"
HandleRoomSelect(id) ==
    /\ Len(runs) < MaxSelects
    /\ ~(app.currentRoomId = id /\ app.sessionLayout # 0)
    /\ app' = [app EXCEPT !.sessionLayout = 0, !.spread = FALSE, !.currentRoomId = id,
                          !.error = <<>>, !.status = "Loading"]
    /\ runs' = Append(runs, [roomId |-> id, pc |-> "fetch", master |-> 0])
    /\ HeapUnchanged
    /\ UNCHANGED <<layouts, masters, loads, thrown, origin, disposed, calls>>
    /\ UNCHANGED viewer

\* "await fetch(..)" of invocation i settles: up to "await response.json()",
\* or through the throw into the catch block
FetchSettles(i, status) ==
    /\ runs[i].pc = "fetch"
    /\ IF status = 200
       THEN /\ runs' = [runs EXCEPT ![i].pc = "json"]
            /\ UNCHANGED app
       ELSE /\ runs' = [runs EXCEPT ![i].pc = "failed"]
            /\ app' = RoomLoadError(app, FetchError(status))
    /\ HeapUnchanged
    /\ UNCHANGED <<layouts, masters, loads, thrown, origin, disposed, calls>>
    /\ UNCHANGED viewer

\* "await response.json()" of invocation i returns data: the emptiness test,
\* Layout3D.fromJSON(data), and master.loadAssets() up to its await
JsonArrives(i, data) ==
    /\ runs[i].pc = "json"
    /\ IF data = EmptyData
       THEN /\ runs' = [runs EXCEPT ![i].pc = "failed"]
            /\ app' = RoomLoadError(app, "Layout Empty")
            /\ HeapUnchanged
            /\ UNCHANGED <<layouts, loads, origin, calls>>
       ELSE /\ \E l \in {Layout3DFromJSON(Heap, data)} :
                  /\ Commit(l.h)
                  /\ layouts' = Append(layouts, l.v)
                  /\ loads' = Append(loads, [state |-> "pending",
                                             tasks |-> GatherTasks(l.v, 1, 1)])
            /\ origin' = Append(origin, 0)
            /\ calls' = [calls EXCEPT !.load = @ + 1]
            /\ runs' = [runs EXCEPT ![i].pc = "load", ![i].master = Len(layouts) + 1]
            /\ app' = [app EXCEPT !.status = "Downloading 3D Models"]
    /\ UNCHANGED <<masters, thrown, disposed>>
    /\ UNCHANGED viewer

\* a handleRoomSelect that does not await master.loadAssets()
RegisterAndCloneNoAwait(i) ==
    /\ runs[i].pc = "load"
    /\ masters' = RegistrySet(masters, runs[i].roomId, runs[i].master)
    /\ \E c \in {Layout3DClone(Heap, layouts[masters'[runs[i].roomId]])} :
          /\ Commit(c.h)
          /\ layouts' = Append(layouts, c.v)
    /\ loads' = Append(loads, IdleLoad)
    /\ origin' = Append(origin, masters'[runs[i].roomId])
    /\ app' = [app EXCEPT !.sessionLayout = Len(layouts) + 1, !.spread = FALSE,
                          !.status = "Showing 3D Layout"]
    /\ runs' = [runs EXCEPT ![i].pc = "done"]
    /\ thrown' = <<>>
    /\ UNCHANGED <<disposed, calls>>
    /\ UNCHANGED viewer

\* "await master.loadAssets()" of invocation i has settled: the inner catch,
\* then registry.registerMaster(roomId, master), registry.getSessionClone(roomId),
\* setSessionLayout(session)
RegisterAndClone(i) ==
    /\ runs[i].pc = "load"
    /\ loads[runs[i].master].state \in {"resolved", "rejected"}
    /\ masters' = RegistrySet(masters, runs[i].roomId, runs[i].master)
    /\ \E c \in {Layout3DClone(Heap, layouts[masters'[runs[i].roomId]])} :
          /\ Commit(c.h)
          /\ layouts' = Append(layouts, c.v)
    /\ loads' = Append(loads, IdleLoad)
    /\ origin' = Append(origin, masters'[runs[i].roomId])
    /\ app' = [app EXCEPT !.sessionLayout = Len(layouts) + 1, !.spread = FALSE,
                          !.status = "Showing 3D Layout"]
    /\ runs' = [runs EXCEPT ![i].pc = "done"]
    /\ thrown' = <<>>
    /\ UNCHANGED <<disposed, calls>>
    /\ UNCHANGED viewer

\* a handleCreateSession that copies the session on display, not the master
HandleCreateSessionOfSession ==
    /\ calls.session < MaxSessions
    /\ app.currentRoomId # 0
    /\ app.sessionLayout # 0
    /\ calls' = [calls EXCEPT !.session = @ + 1]
    /\ \E c \in {Layout3DClone(Heap, layouts[app.sessionLayout])} :
          /\ Commit(c.h)
          /\ layouts' = Append(layouts, c.v)
    /\ loads' = Append(loads, IdleLoad)
    /\ origin' = Append(origin, origin[app.sessionLayout])
    /\ app' = [app EXCEPT !.sessionLayout = Len(layouts) + 1, !.spread = FALSE,
                          !.status = "Session Reset"]
    /\ thrown' = <<>>
    /\ UNCHANGED <<masters, disposed, runs>>
    /\ UNCHANGED viewer

\* handleCreateSession(): getSessionClone(currentRoomId) in a try / catch;
\* its button is rendered only while sessionLayout is set
HandleCreateSession ==
    /\ calls.session < MaxSessions
    /\ app.sessionLayout # 0
    /\ app.currentRoomId # 0
    /\ calls' = [calls EXCEPT !.session = @ + 1]
    /\ IF RegistryMiss(masters, app.currentRoomId)
       THEN /\ thrown' = NotFound(app.currentRoomId)
            /\ HeapUnchanged
            /\ UNCHANGED <<layouts, loads, origin, app>>
       ELSE /\ \E c \in {Layout3DClone(Heap, layouts[masters[app.currentRoomId]])} :
                  /\ Commit(c.h)
                  /\ layouts' = Append(layouts, c.v)
            /\ loads' = Append(loads, IdleLoad)
            /\ origin' = Append(origin, masters[app.currentRoomId])
            /\ app' = [app EXCEPT !.sessionLayout = Len(layouts) + 1, !.spread = FALSE,
                                  !.status = "Session Reset"]
            /\ thrown' = <<>>
    /\ UNCHANGED <<masters, disposed, runs>>
    /\ UNCHANGED viewer

\* handleModifySession(): setPosition(newX, 0, newZ) on the first Furniture of
\* the first Room of the session, then setSessionLayout({ ...sessionLayout })
HandleModifySession(v) ==
    /\ calls.transform < MaxCalls
    /\ app.sessionLayout # 0
    /\ Len(layouts[app.sessionLayout].rooms) > 0
    /\ Len(layouts[app.sessionLayout].rooms[1].furnitureList) > 0
    /\ Commit(FurnitureSetPosition(Heap, layouts[app.sessionLayout].rooms[1].furnitureList[1], v))
    /\ app' = [app EXCEPT !.spread = TRUE, !.status = "Moved"]
    /\ calls' = [calls EXCEPT !.transform = @ + 1]
    /\ UNCHANGED <<layouts, masters, loads, thrown, origin, disposed, runs>>
    /\ UNCHANGED viewer

-----------------------------------------------------------------------------
(* ThreeDViewer: the effect that builds the scene and the effect that shows *)
(* layoutData, as React commits them once App's state has changed          *)

\* the layoutData prop: sessionLayout, which is the session Layout3D or the
\* copy { ...sessionLayout, _version: Date.now() } made by handleModifySession
LayoutData ==
    IF app.sessionLayout = 0 THEN <<>>
    ELSE <<[layout |-> app.sessionLayout, spread |-> app.spread,
            version |-> IF app.spread THEN calls.transform ELSE 0]>>

\* the first effect: new THREE.Scene() with the floor, the grid helper and the
\* ambient, hemisphere and directional lights
InitScene(h) ==
    Bind(NewObject3D(h, "Scene", 0, 0), LAMBDA scene :
    Bind(NewResource(scene.h, "PlaneGeometry"), LAMBDA fg :
    Bind(NewResource(fg.h, "MeshStandardMaterial"), LAMBDA fm :
    Bind(NewObject3D(fm.h, "Mesh", fg.v, fm.v), LAMBDA floor :
    Bind(NewResource(Object3DAdd(floor.h, scene.v, floor.v), "BufferGeometry"), LAMBDA gg :
    Bind(NewResource(gg.h, "LineBasicMaterial"), LAMBDA gm :
    Bind(NewObject3D(gm.h, "GridHelper", gg.v, gm.v), LAMBDA grid :
    Bind(NewObject3D(Object3DAdd(grid.h, scene.v, grid.v), "AmbientLight", 0, 0), LAMBDA ambient :
    Bind(NewObject3D(Object3DAdd(ambient.h, scene.v, ambient.v), "HemisphereLight", 0, 0), LAMBDA hemi :
    Bind(NewObject3D(Object3DAdd([hemi.h EXCEPT !.nodes[hemi.v].position = <<0, Q(20), 0>>],
                                 scene.v, hemi.v), "DirectionalLight", 0, 0), LAMBDA dir :
         Ret(Object3DAdd([dir.h EXCEPT !.nodes[dir.v].position = <<Q(10), Q(30), Q(20)>>],
                         scene.v, dir.v), scene.v)))))))))))

\* "if (child.userData.entityId) scene.remove(child)", from the last child to
\* the first
RECURSIVE RemoveLayoutGroups(_, _, _, _)
RemoveLayoutGroups(h, scene, kids, i) ==
    IF i < 1 THEN h
    ELSE IF h.nodes[kids[i]].entityId # 0
         THEN RemoveLayoutGroups(Object3DRemove(h, scene, kids[i]), scene, kids, i - 1)
         ELSE RemoveLayoutGroups(h, scene, kids, i - 1)

\* the same loop in client/src/ThreeDViewer.js: scene.remove(child), then
\* child.traverse(node => node.isMesh && dispose its geometry and material)
RECURSIVE RemoveAndCleanLayoutGroups(_, _, _, _)
RemoveAndCleanLayoutGroups(h, scene, kids, i) ==
    IF i < 1 THEN h
    ELSE IF h.nodes[kids[i]].entityId # 0
         THEN RemoveAndCleanLayoutGroups(
                  DisposeResources(Object3DRemove(h, scene, kids[i]),
                                   MeshResources(h.nodes, kids[i])),
                  scene, kids, i - 1)
         ELSE RemoveAndCleanLayoutGroups(h, scene, kids, i - 1)

\* the second effect of ThreeDViewer: remove the old layout groups, then
\* scene.add(layoutData.group)
UpdateLayout(h, scene, layout) ==
    Object3DAdd(RemoveLayoutGroups(h, scene, h.nodes[scene].children,
                                   Len(h.nodes[scene].children)),
                scene, layout.group)

\* the second effect of client/src/ThreeDViewer.js
UpdateLayoutDeepClean(h, scene, layout) ==
    Object3DAdd(RemoveAndCleanLayoutGroups(h, scene, h.nodes[scene].children,
                                           Len(h.nodes[scene].children)),
                scene, layout.group)

\* "if (layoutData.cameraView && ..)": camera.position.set / controls.target.set
UpdateCamera(v, h, layout) ==
    IF layout.cameraView = 0 THEN v
    ELSE [v EXCEPT
            !.cameraPosition = IF h.objects[layout.cameraView].position # 0
                               THEN h.objects[h.objects[layout.cameraView].position].xyz
                               ELSE @,
            !.target = IF h.objects[layout.cameraView].target # 0
                       THEN h.objects[h.objects[layout.cameraView].target].xyz
                       ELSE @]

\* the cleanup of the second effect: "if (layoutData && typeof layoutData.dispose
\* === 'function') layoutData.dispose()"; the copy made by the spread has the
\* own properties of the Layout3D and no dispose
CleanupDisposes(ld) == ld # <<>> /\ ~ld[1].spread
CleanupLayout(h, ld) ==
    IF CleanupDisposes(ld) THEN Layout3DDispose(h, layouts[ld[1].layout]) ELSE h

\* the cleanup of the first effect of client/src/ThreeDViewer.js:
\* scene.traverse(object => dispose its geometry and material)
CleanUpScene(h, scene) ==
    DisposeResources(h, UNION {{h.nodes[x].geometry, h.nodes[x].material} :
                                  x \in Subtree(h.nodes, scene)} \ {0})

\* App renders <ThreeDViewer layoutData={sessionLayout} /> in place of the
\* placeholder: both effects run, the scene first
ViewerMount ==
    /\ ~viewer.mounted
    /\ app.sessionLayout # 0
    /\ \E s \in {InitScene(Heap)} :
          /\ Commit(UpdateLayout(s.h, s.v, layouts[app.sessionLayout]))
          /\ viewer' = [UpdateCamera(viewer, Heap, layouts[app.sessionLayout])
                           EXCEPT !.mounted = TRUE, !.scene = s.v,
                                  !.layoutData = LayoutData,
                                  !.handed = @ \cup {app.sessionLayout}]
    /\ UNCHANGED <<layouts, masters, loads, thrown, origin, disposed, calls, app, runs>>

\* layoutData has changed: the cleanup of the previous run of the second
\* effect, then the effect
ViewerUpdate ==
    /\ viewer.mounted
    /\ app.sessionLayout # 0
    /\ LayoutData # viewer.layoutData
    /\ Commit(UpdateLayout(CleanupLayout(Heap, viewer.layoutData), viewer.scene,
                           layouts[app.sessionLayout]))
    /\ viewer' = [UpdateCamera(viewer, Heap, layouts[app.sessionLayout])
                     EXCEPT !.layoutData = LayoutData,
                            !.handed = @ \cup {app.sessionLayout},
                            !.disposeCalls = IF CleanupDisposes(viewer.layoutData)
                                             THEN Append(@, viewer.layoutData[1].layout)
                                             ELSE @]
    /\ disposed' = IF CleanupDisposes(viewer.layoutData)
                   THEN disposed \cup {viewer.layoutData[1].layout} ELSE disposed
    /\ UNCHANGED <<layouts, masters, loads, thrown, origin, calls, app, runs>>

\* sessionLayout is null again: App renders the placeholder and the viewer
\* unmounts; the cleanups of both effects
ViewerUnmount ==
    /\ viewer.mounted
    /\ app.sessionLayout = 0
    /\ Commit(CleanupLayout(Heap, viewer.layoutData))
    /\ viewer' = [viewer EXCEPT !.mounted = FALSE, !.scene = 0, !.layoutData = <<>>,
                                !.disposeCalls = IF CleanupDisposes(viewer.layoutData)
                                                 THEN Append(@, viewer.layoutData[1].layout)
                                                 ELSE @]
    /\ disposed' = IF CleanupDisposes(viewer.layoutData)
                   THEN disposed \cup {viewer.layoutData[1].layout} ELSE disposed
    /\ UNCHANGED <<layouts, masters, loads, thrown, origin, calls, app, runs>>

\* the three commits with client/src/ThreeDViewer.js as the viewer
ClientViewerMount ==
    /\ ~viewer.mounted
    /\ app.sessionLayout # 0
    /\ \E s \in {InitScene(Heap)} :
          /\ Commit(UpdateLayoutDeepClean(s.h, s.v, layouts[app.sessionLayout]))
          /\ viewer' = [UpdateCamera(viewer, Heap, layouts[app.sessionLayout])
                           EXCEPT !.mounted = TRUE, !.scene = s.v,
                                  !.layoutData = LayoutData,
                                  !.handed = @ \cup {app.sessionLayout}]
    /\ UNCHANGED <<layouts, masters, loads, thrown, origin, disposed, calls, app, runs>>

ClientViewerUpdate ==
    /\ viewer.mounted
    /\ app.sessionLayout # 0
    /\ LayoutData # viewer.layoutData
    /\ Commit(UpdateLayoutDeepClean(Heap, viewer.scene, layouts[app.sessionLayout]))
    /\ viewer' = [UpdateCamera(viewer, Heap, layouts[app.sessionLayout])
                     EXCEPT !.layoutData = LayoutData,
                            !.handed = @ \cup {app.sessionLayout}]
    /\ UNCHANGED <<layouts, masters, loads, thrown, origin, disposed, calls, app, runs>>

ClientViewerUnmount ==
    /\ viewer.mounted
    /\ app.sessionLayout = 0
    /\ Commit(CleanUpScene(Heap, viewer.scene))
    /\ viewer' = [viewer EXCEPT !.mounted = FALSE, !.scene = 0, !.layoutData = <<>>]
    /\ UNCHANGED <<layouts, masters, loads, thrown, origin, disposed, calls, app, runs>>

\* React has committed the last change of sessionLayout to the viewer
InSync ==
    IF app.sessionLayout = 0 THEN ~viewer.mounted
    ELSE viewer.mounted /\ viewer.layoutData = LayoutData

-----------------------------------------------------------------------------

Next ==
    \/ \E d \in Descriptions : Hydrate(d)
    \/ \E id \in LayoutIds, l \in Refs : RegisterMaster(id, l)
    \/ \E id \in LayoutIds : GetSessionCloneMiss(id)
    \/ \E id \in LayoutIds : GetSessionCloneHit(id)
    \/ \E l \in Refs : Clone(l)
    \/ \E l \in Refs : \E r \in RoomsOf(l) : \E k \in FurnitureOf(l, r) :
          \E op \in {"setPosition", "setRotation", "setScale"}, v \in Vectors :
             SetTransform(l, r, k, op, v)
    \/ \E l \in Refs : \E r \in {0} \cup RoomsOf(l) :
          \E op \in {"position", "rotation", "scale"}, v \in Vectors :
             SetGroupTransform(l, r, op, v)
    \/ \E l \in Refs : \E r \in RoomsOf(l) : \E w \in WallsOf(l, r) :
          \E v \in Vectors : MoveWall(l, r, w, v)
    \/ \E l \in Refs : \E r \in RoomsOf(l) : AddWall(l, r)
    \/ \E l \in Refs : \E r \in RoomsOf(l) : \E w \in WallsOf(l, r) : AddWallClone(l, r, w)
    \/ \E l \in Refs : \E r \in RoomsOf(l) : GenerateWalls(l, r)
    \/ \E l \in Refs : \E field \in {"position", "target"}, v \in Vectors :
          SetCameraCoordinate(l, field, v)
    \/ \E l \in Refs : \E field \in {"position", "target"}, v \in Vectors :
          SetCameraField(l, field, v)
    \/ \E l \in Refs : LoadAssets(l)
    \/ \E l \in Refs : \E t \in 1..Len(loads[l].tasks) : \E a \in Assets : FetchOk(l, t, a)
    \/ \E l \in Refs : \E t \in 1..Len(loads[l].tasks) : FetchFail(l, t)
    \/ \E l \in Refs : LoadAssetsSettle(l)
    \/ \E l \in Refs : Dispose(l)
    \/ \E id \in LayoutIds : HandleRoomSelect(id)
    \/ \E i \in 1..Len(runs) : \E status \in HttpStatuses : FetchSettles(i, status)
    \/ \E i \in 1..Len(runs) : \E data \in ResponseData(runs[i].roomId) : JsonArrives(i, data)
    \/ \E i \in 1..Len(runs) : RegisterAndClone(i)
    \/ HandleCreateSession
    \/ \E v \in Vectors : HandleModifySession(v)
    \/ ViewerMount
    \/ ViewerUpdate
    \/ ViewerUnmount
    \/ ClientViewerMount
    \/ ClientViewerUpdate
    \/ ClientViewerUnmount

Spec == Init /\ [][Next]_vars

\* every invocation of handleRoomSelect has run to its end
Settled == \A i \in 1..Len(runs) : runs[i].pc \in {"done", "failed"}

\* The application when a room is selected only after the previous selection
\* has been served or has failed
NextAppSequence ==
    \/ \E id \in LayoutIds : Settled /\ HandleRoomSelect(id)
    \/ \E i \in 1..Len(runs) : \E status \in HttpStatuses : FetchSettles(i, status)
    \/ \E i \in 1..Len(runs) : \E data \in ResponseData(runs[i].roomId) : JsonArrives(i, data)
    \/ \E l \in Refs : \E t \in 1..Len(loads[l].tasks) : \E a \in Assets : FetchOk(l, t, a)
    \/ \E l \in Refs : \E t \in 1..Len(loads[l].tasks) : FetchFail(l, t)
    \/ \E l \in Refs : LoadAssetsSettle(l)
    \/ \E i \in 1..Len(runs) : RegisterAndClone(i)

SpecAppSequence == Init /\ [][NextAppSequence]_vars

\* The application with overlapping room selections: the loads they start,
\* session resets and edits
NextApp ==
    \/ \E id \in LayoutIds : Len(runs) < MaxOverlap /\ HandleRoomSelect(id)
    \/ \E i \in 1..Len(runs) : \E status \in HttpStatuses : FetchSettles(i, status)
    \/ \E i \in 1..Len(runs) : \E data \in ResponseData(runs[i].roomId) : JsonArrives(i, data)
    \/ \E l \in Refs : \E t \in 1..Len(loads[l].tasks) : \E a \in Assets : FetchOk(l, t, a)
    \/ \E l \in Refs : \E t \in 1..Len(loads[l].tasks) : FetchFail(l, t)
    \/ \E l \in Refs : LoadAssetsSettle(l)
    \/ \E i \in 1..Len(runs) : RegisterAndClone(i)
    \/ HandleCreateSession
    \/ \E v \in Vectors : HandleModifySession(v)

SpecApp == Init /\ [][NextApp]_vars

\* what db/layout.json may hold under a room id: a description with that id,
\* one with no id of its own, or {}
StoredLayouts(id) == ResponseData(id) \cup {d \in MalformedDescriptions : d.id = NoId}

\* The application, one room selection after another, with the ThreeDViewer that
\* disposes layoutData in its cleanup; React flushes the effects of one commit
\* before it renders the next state
NextViewer ==
    \/ \E id \in LayoutIds : InSync /\ Settled /\ HandleRoomSelect(id)
    \/ \E i \in 1..Len(runs) : \E status \in HttpStatuses : InSync /\ FetchSettles(i, status)
    \/ \E i \in 1..Len(runs) : \E data \in StoredLayouts(runs[i].roomId) :
          InSync /\ JsonArrives(i, data)
    \/ \E l \in Refs : \E t \in 1..Len(loads[l].tasks) : \E a \in Assets :
          InSync /\ FetchOk(l, t, a)
    \/ \E l \in Refs : \E t \in 1..Len(loads[l].tasks) : InSync /\ FetchFail(l, t)
    \/ \E l \in Refs : InSync /\ LoadAssetsSettle(l)
    \/ \E i \in 1..Len(runs) : InSync /\ RegisterAndClone(i)
    \/ InSync /\ HandleCreateSession
    \/ \E v \in Vectors : InSync /\ HandleModifySession(v)
    \/ ViewerMount
    \/ ViewerUpdate
    \/ ViewerUnmount

SpecViewer == Init /\ [][NextViewer]_vars

\* The same application with client/src/ThreeDViewer.js
NextClientViewer ==
    \/ \E id \in LayoutIds : InSync /\ Settled /\ HandleRoomSelect(id)
    \/ \E i \in 1..Len(runs) : \E status \in HttpStatuses : InSync /\ FetchSettles(i, status)
    \/ \E i \in 1..Len(runs) : \E data \in StoredLayouts(runs[i].roomId) :
          InSync /\ JsonArrives(i, data)
    \/ \E l \in Refs : \E t \in 1..Len(loads[l].tasks) : \E a \in Assets :
          InSync /\ FetchOk(l, t, a)
    \/ \E l \in Refs : \E t \in 1..Len(loads[l].tasks) : InSync /\ FetchFail(l, t)
    \/ \E l \in Refs : InSync /\ LoadAssetsSettle(l)
    \/ \E i \in 1..Len(runs) : InSync /\ RegisterAndClone(i)
    \/ InSync /\ HandleCreateSession
    \/ \E v \in Vectors : InSync /\ HandleModifySession(v)
    \/ ClientViewerMount
    \/ ClientViewerUpdate
    \/ ClientViewerUnmount

SpecClientViewer == Init /\ [][NextClientViewer]_vars

\* Cloning of layouts whose Furniture, Room groups and root group have been
\* moved, turned or scaled
NextCloneTransform ==
    \/ \E d \in Descriptions : Hydrate(d)
    \/ \E l \in Refs : \E r \in RoomsOf(l) : \E k \in FurnitureOf(l, r) :
          \E op \in {"setPosition", "setRotation", "setScale"}, v \in Vectors :
             SetTransform(l, r, k, op, v)
    \/ \E l \in Refs : \E r \in {0} \cup RoomsOf(l) :
          \E op \in {"position", "rotation", "scale"}, v \in Vectors :
             SetGroupTransform(l, r, op, v)
    \/ \E l \in Refs : Clone(l)

SpecCloneTransform == Init /\ [][NextCloneTransform]_vars

\* The Registry with every operation on the layouts it holds: registration,
\* session clones, clone(), loadAssets() and dispose(); one layout is hydrated
\* from a description, the others are its clones
NextRegistry ==
    \/ \E d \in Descriptions : Len(layouts) = 0 /\ Hydrate(d)
    \/ \E id \in LayoutIds, l \in Refs : RegisterMaster(id, l)
    \/ \E id \in LayoutIds : GetSessionCloneMiss(id)
    \/ \E id \in LayoutIds : GetSessionCloneHit(id)
    \/ \E l \in Refs : Clone(l)
    \/ \E l \in Refs : LoadAssets(l)
    \/ \E l \in Refs : \E t \in 1..Len(loads[l].tasks) : \E a \in Assets : FetchOk(l, t, a)
    \/ \E l \in Refs : \E t \in 1..Len(loads[l].tasks) : FetchFail(l, t)
    \/ \E l \in Refs : LoadAssetsSettle(l)
    \/ \E l \in Refs : Dispose(l)

SpecRegistry == Init /\ [][NextRegistry]_vars

\* Hydration, registry, cloning and editing of sessions (no loads, no dispose)
NextSession ==
    \/ \E d \in Descriptions : Hydrate(d)
    \/ \E id \in LayoutIds, l \in Refs : RegisterMaster(id, l)
    \/ \E id \in LayoutIds : GetSessionCloneMiss(id)
    \/ \E id \in LayoutIds : GetSessionCloneHit(id)
    \/ \E l \in Refs : Clone(l)
    \/ \E l \in Refs : \E r \in RoomsOf(l) : \E k \in FurnitureOf(l, r) :
          \E op \in {"setPosition", "setRotation", "setScale"}, v \in Vectors :
             SetTransform(l, r, k, op, v)
    \/ \E l \in Refs : \E r \in RoomsOf(l) : \E w \in WallsOf(l, r) :
          \E v \in Vectors : MoveWall(l, r, w, v)
    \/ \E l \in Refs : \E r \in RoomsOf(l) : AddWall(l, r)
    \/ \E l \in Refs : \E r \in RoomsOf(l) : \E w \in WallsOf(l, r) : AddWallClone(l, r, w)
    \/ \E l \in Refs : \E r \in RoomsOf(l) : GenerateWalls(l, r)

SpecSession == Init /\ [][NextSession]_vars

\* Hydration, cloning and asset loading
NextLoad ==
    \/ \E d \in Descriptions : Hydrate(d)
    \/ \E l \in Refs : Clone(l)
    \/ \E l \in Refs : LoadAssets(l)
    \/ \E l \in Refs : \E t \in 1..Len(loads[l].tasks) : \E a \in Assets : FetchOk(l, t, a)
    \/ \E l \in Refs : \E t \in 1..Len(loads[l].tasks) : FetchFail(l, t)
    \/ \E l \in Refs : LoadAssetsSettle(l)

SpecLoad == Init /\ [][NextLoad]_vars

\* Hydration and asset loading over assets of several bounding boxes
NextNormalize ==
    \/ \E d \in Descriptions : Hydrate(d)
    \/ \E l \in Refs : LoadAssets(l)
    \/ \E l \in Refs : \E t \in 1..Len(loads[l].tasks) : \E a \in Boxes : FetchOk(l, t, a)
    \/ \E l \in Refs : \E t \in 1..Len(loads[l].tasks) : FetchFail(l, t)
    \/ \E l \in Refs : LoadAssetsSettle(l)

SpecNormalize == Init /\ [][NextNormalize]_vars

\* SpecLoad under the scheduling of the event loop: the continuation of a
\* settled "await Promise.all(promises)" is eventually run
SpecLoadFair ==
    SpecLoad /\ \A l \in 1..MaxLayouts : WF_vars(l \in Refs /\ LoadAssetsSettle(l))

\* Masters, sessions obtained from the registry, loaded models and dispose
NextDispose ==
    \/ \E d \in Descriptions : Hydrate(d)
    \/ \E id \in LayoutIds, l \in Refs : RegisterMaster(id, l)
    \/ \E id \in LayoutIds : GetSessionCloneHit(id)
    \/ \E l \in Refs : LoadAssets(l)
    \/ \E l \in Refs : \E t \in 1..Len(loads[l].tasks) : \E a \in Assets : FetchOk(l, t, a)
    \/ \E l \in Refs : Dispose(l)

SpecDispose == Init /\ [][NextDispose]_vars

\* Hydration, cloning, asset loading (fetches that succeed or fail) and dispose
NextLoadDispose ==
    \/ NextLoad
    \/ \E l \in Refs : Dispose(l)

SpecLoadDispose == Init /\ [][NextLoadDispose]_vars

\* Hydration, cloning and writes to the camera view
NextCamera ==
    \/ \E d \in Descriptions : Hydrate(d)
    \/ \E l \in Refs : Clone(l)
    \/ \E l \in Refs : \E field \in {"position", "target"}, v \in Vectors :
          SetCameraCoordinate(l, field, v)
    \/ \E l \in Refs : \E field \in {"position", "target"}, v \in Vectors :
          SetCameraField(l, field, v)

SpecCamera == Init /\ [][NextCamera]_vars

\* Hydration of well-formed and of malformed descriptions
NextHydrate ==
    \E d \in Descriptions \cup MalformedDescriptions : Hydrate(d)

SpecHydrate == Init /\ [][NextHydrate]_vars

-----------------------------------------------------------------------------
(* Observations used by the properties *)

\* the scene nodes of Layout3D l: its group's subtree and every node its
\* Room / Wall / Furniture instances hold in a field
NodesOf(l) ==
    Subtree(nodes, layouts[l].group)
    \cup UNION {{layouts[l].rooms[r].group} : r \in RoomsOf(l)}
    \cup UNION {{layouts[l].rooms[r].walls[w].mesh : w \in WallsOf(l, r)} : r \in RoomsOf(l)}
    \cup UNION {UNION {Subtree(nodes, layouts[l].rooms[r].furnitureList[k].root)
                       \cup Subtree(nodes, layouts[l].rooms[r].furnitureList[k].mesh)
                       : k \in FurnitureOf(l, r)} : r \in RoomsOf(l)}

\* the geometry / material handles referenced from the nodes of Layout3D l
ResourcesOf(l) == UNION {{nodes[n].geometry, nodes[n].material} : n \in NodesOf(l)} \ {0}

\* userData.entityId of the nodes of Layout3D l
EntityIdsOf(l) == {nodes[n].entityId : n \in NodesOf(l)}

\* position, rotation and scale of the k-th Furniture of room r of Layout3D l
FurnitureTransform(l, r, k) ==
    [position |-> nodes[layouts[l].rooms[r].furnitureList[k].root].position,
     rotation |-> nodes[layouts[l].rooms[r].furnitureList[k].root].rotation,
     scale |-> nodes[layouts[l].rooms[r].furnitureList[k].root].scale]

FurnitureTransforms(l) ==
    [r \in RoomsOf(l) |-> [k \in FurnitureOf(l, r) |-> FurnitureTransform(l, r, k)]]

Registered == {masters[id] : id \in LayoutIds} \ {0}
IsClone(l) == origin[l] # 0
WallNodes == {n \in DOMAIN nodes : nodes[n].utype = "Wall"}
SharedResources == {statics.wallGeometry, statics.wallMaterial,
                    statics.placeholderGeometry, statics.placeholderMaterial} \ {0}

\* the Furniture a hydration task of loadAssets() on Layout3D l belongs to
TaskFurniture(l, t) == layouts[l].rooms[loads[l].tasks[t].room].furnitureList[loads[l].tasks[t].idx]

\* a placeholder Mesh / a loaded Mesh among the nodes under root
PlaceholderUnder(root) ==
    \E n \in Subtree(nodes, root) \ {root} :
       nodes[n].geometry # 0 /\ nodes[n].geometry = statics.placeholderGeometry
LoadedUnder(root) ==
    \E n \in Subtree(nodes, root) \ {root} :
       nodes[n].geometry # 0 /\ resources[nodes[n].geometry].kind = "LoadedGeometry"

\* the handles on which dispose() is called for the first time in a step
NewlyDisposed ==
    {x \in DOMAIN resources : ~resources[x].disposed /\ resources'[x].disposed}

\* width, height, depth and position of the walls of a Room, in order; ls and
\* ns are the Layout3D heap and the node heap they are read from
WallShapes(ls, ns, l, r) ==
    [w \in 1..Len(ls[l].rooms[r].walls) |->
        [width |-> ls[l].rooms[r].walls[w].width,
         height |-> ls[l].rooms[r].walls[w].height,
         depth |-> ls[l].rooms[r].walls[w].depth,
         scale |-> ns[ls[l].rooms[r].walls[w].mesh].scale,
         position |-> ns[ls[l].rooms[r].walls[w].mesh].position,
         parent |-> ns[ls[l].rooms[r].walls[w].mesh].parent]]

\* back, front, left and right wall of a Room of the given width and depth
\* whose group is the node g
FourWalls(width, depth, g) ==
    << [width |-> width, height |-> WallHeightQ, depth |-> WallThicknessQ,
        scale |-> <<width, WallHeightQ, WallThicknessQ>>,
        position |-> <<0, Half(WallHeightQ), 0 - Half(depth)>>, parent |-> g],
       [width |-> width, height |-> WallHeightQ, depth |-> WallThicknessQ,
        scale |-> <<width, WallHeightQ, WallThicknessQ>>,
        position |-> <<0, Half(WallHeightQ), Half(depth)>>, parent |-> g],
       [width |-> WallThicknessQ, height |-> WallHeightQ, depth |-> depth,
        scale |-> <<WallThicknessQ, WallHeightQ, depth>>,
        position |-> <<0 - Half(width), Half(WallHeightQ), 0>>, parent |-> g],
       [width |-> WallThicknessQ, height |-> WallHeightQ, depth |-> depth,
        scale |-> <<WallThicknessQ, WallHeightQ, depth>>,
        position |-> <<Half(width), Half(WallHeightQ), 0>>, parent |-> g] >>

-----------------------------------------------------------------------------
(* Properties *)

\* C1: a step that changes the transform (position, rotation or scale) of a
\* Furniture of one Layout3D changes the transform of no Furniture of any other
\* Layout3D; in particular setPosition / setRotation / setScale on a session
\* leaves the Furniture of its registered master unchanged, and the reverse.
C1_TransformIsolation ==
    [][\A l1 \in Refs : \A l2 \in Refs \ {l1} :
          FurnitureTransforms(l1)' # FurnitureTransforms(l1)
             => FurnitureTransforms(l2)' = FurnitureTransforms(l2)]_vars

\* a session of a registered master whose Furniture was moved on one side only
C1_Witness ==
    \E id \in LayoutIds : \E s \in Refs :
       /\ masters[id] # 0
       /\ origin[s] = masters[id]
       /\ calls.transform > 0
       /\ \E r \in RoomsOf(s) : \E k \in FurnitureOf(s, r) :
             FurnitureTransform(s, r, k) # FurnitureTransform(masters[id], r, k)

\* C2: two Layout3D objects cloned from the same Layout3D (two
\* getSessionClone(id) results of one master) have no scene node in common,
\* nor a node in common with their source: no Room group, Wall mesh, Furniture
\* root or mesh is shared, so no transform written through one is visible
\* through the other.
C2_ClonesShareNoNode ==
    \A c1 \in Refs : \A c2 \in Refs \ {c1} :
       (IsClone(c1) /\ origin[c1] = origin[c2])
          => /\ NodesOf(c1) \cap NodesOf(c2) = {}
             /\ NodesOf(c1) \cap NodesOf(origin[c1]) = {}
             /\ layouts[c1].group # layouts[c2].group

\* two sessions obtained from the same registered master
C2_Witness ==
    \E id \in LayoutIds : \E c1 \in Refs : \E c2 \in Refs \ {c1} :
       /\ masters[id] # 0
       /\ origin[c1] = masters[id]
       /\ origin[c2] = masters[id]
       /\ Len(layouts[c1].rooms) > 0

\* C3: no node of a clone carries the userData.entityId of a node of the
\* Layout3D it was cloned from, at any level: Layout3D group, Room groups, Wall
\* meshes, Furniture roots and the nodes under the Furniture roots.
C3_FreshEntityIds ==
    \A c \in Refs : IsClone(c) => EntityIdsOf(c) \cap EntityIdsOf(origin[c]) = {}

\* C4: a call that ends with the not-found Error for id found no master under
\* id, created no Layout3D and no scene node, and left every entry of
\* LayoutRegistry.masters as it was.
C4_MissLeavesRegistry ==
    [][\A id \in LayoutIds :
          thrown' = NotFound(id)
             => /\ masters[id] = 0
                /\ masters' = masters
                /\ layouts' = layouts
                /\ nodes' = nodes]_vars

\* getSessionClone(id) has thrown for an unregistered id while another id has a master
C4_Witness ==
    \E id \in LayoutIds : \E other \in LayoutIds \ {id} :
       /\ thrown = NotFound(id)
       /\ masters[id] = 0
       /\ masters[other] # 0

\* C5: loadAssets() never rejects, and once it has resolved every Furniture
\* whose fetch failed still has the placeholder Mesh under its root, and every
\* Furniture whose fetch succeeded has the loaded model under its root and no
\* placeholder Mesh any more.
C5_BestEffortHydration ==
    \A l \in Refs :
       /\ loads[l].state # "rejected"
       /\ loads[l].state = "resolved" =>
             \A t \in 1..Len(loads[l].tasks) :
                /\ loads[l].tasks[t].fetch = "failed"
                      => PlaceholderUnder(TaskFurniture(l, t).root)
                /\ loads[l].tasks[t].fetch = "ok"
                      => /\ LoadedUnder(TaskFurniture(l, t).root)
                         /\ ~PlaceholderUnder(TaskFurniture(l, t).root)

\* C6: once loadAssets() has settled (its await of Promise.all has returned or
\* thrown), no hydration task it started has its fetch still pending, also
\* when one of the fetches has failed.
C6_SettlesAfterAllTasks ==
    \A l \in Refs :
       loads[l].state \in {"resolved", "rejected"}
          => \A t \in 1..Len(loads[l].tasks) : loads[l].tasks[t].fetch # "pending"

\* loadAssets() has resolved with one fetch failed and another succeeded
C6_Witness ==
    \E l \in Refs :
       /\ loads[l].state = "resolved"
       /\ \E t \in 1..Len(loads[l].tasks) : loads[l].tasks[t].fetch = "failed"
       /\ \E t \in 1..Len(loads[l].tasks) : loads[l].tasks[t].fetch = "ok"

\* C7: the first dispose() of a session (a Layout3D made by clone()) disposes
\* no shared Wall or placeholder geometry / material, and no geometry /
\* material referenced from a registered master or from another clone that has
\* not been disposed.
C7_SessionDisposeOnlyOwned ==
    [][\A s \in Refs :
          (IsClone(s) /\ s \notin disposed /\ s \in disposed')
             => \A x \in NewlyDisposed :
                   /\ x \notin SharedResources
                   /\ \A l \in (Registered \cup {c \in Refs : IsClone(c) /\ c \notin disposed'}) \ {s} :
                         x \notin ResourcesOf(l)]_vars

\* C8: every Wall mesh references Wall.geometry and Wall.material, which once
\* created are never replaced, and no two Wall meshes have the same entityId.
C8_WallsShareOneHandle ==
    /\ [](\A n \in WallNodes :
             /\ nodes[n].geometry # 0
             /\ nodes[n].geometry = statics.wallGeometry
             /\ nodes[n].material # 0
             /\ nodes[n].material = statics.wallMaterial
             /\ \A m \in WallNodes \ {n} : nodes[m].entityId # nodes[n].entityId)
    /\ [][/\ statics.wallGeometry # 0 => statics.wallGeometry' = statics.wallGeometry
          /\ statics.wallMaterial # 0 => statics.wallMaterial' = statics.wallMaterial]_vars

\* equivalent walls of two clones of one registered master: same handles, distinct ids
C8_Witness ==
    \E id \in LayoutIds : \E c1 \in Refs : \E c2 \in Refs \ {c1} :
       /\ masters[id] # 0
       /\ origin[c1] = masters[id]
       /\ origin[c2] = masters[id]
       /\ \E r \in RoomsOf(c1) : \E w \in WallsOf(c1, r) :
             /\ r \in RoomsOf(c2) /\ w \in WallsOf(c2, r)
             /\ nodes[layouts[c1].rooms[r].walls[w].mesh].geometry
                   = nodes[layouts[c2].rooms[r].walls[w].mesh].geometry
             /\ nodes[layouts[c1].rooms[r].walls[w].mesh].material
                   = nodes[layouts[c2].rooms[r].walls[w].mesh].material
             /\ nodes[layouts[c1].rooms[r].walls[w].mesh].entityId
                   # nodes[layouts[c2].rooms[r].walls[w].mesh].entityId

\* C9: in the Layout3D that a clone() step creates, every Room has exactly
\* the back, front, left and right wall that its source Room's width and depth
\* determine (height 3.5, thickness 0.5), attached to the new Room's group,
\* whatever walls the source Room has at that time.
C9_CloneRegeneratesWalls ==
    [][(Len(layouts') = Len(layouts) + 1 /\ origin'[Len(layouts')] # 0)
          => /\ Len(layouts'[Len(layouts')].rooms) = Len(layouts[origin'[Len(layouts')]].rooms)
             /\ \A r \in 1..Len(layouts'[Len(layouts')].rooms) :
                   WallShapes(layouts', nodes', Len(layouts'), r)
                      = FourWalls(layouts[origin'[Len(layouts')]].rooms[r].width,
                                  layouts[origin'[Len(layouts')]].rooms[r].depth,
                                  layouts'[Len(layouts')].rooms[r].group)]_vars

\* a clone with four walls whose source Room had a fifth wall before the
\* clone was made (the fifth wall's mesh is older than the clone's group)
C9_Witness ==
    \E c \in Refs :
       /\ IsClone(c)
       /\ \E r \in RoomsOf(c) :
             /\ Len(layouts[c].rooms[r].walls) = 4
             /\ Len(layouts[origin[c]].rooms[r].walls) = 5
             /\ layouts[origin[c]].rooms[r].walls[5].mesh < layouts[c].group

\* C10: a Layout3D whose group says isMaster = true is stored in
\* LayoutRegistry.masters under some id.
C10_IsMasterOnlyIfRegistered ==
    \A l \in Refs : nodes[layouts[l].group].isMaster => l \in Registered

\* C11: every Layout3D made by clone() (directly or by getSessionClone, from a
\* master or from a clone) has isMaster = false, and no step changes the
\* isMaster flag of a Layout3D that exists, so cloning leaves the source's flag.
C11_CloneIsNeverMaster ==
    /\ [](\A c \in Refs : IsClone(c) => ~nodes[layouts[c].group].isMaster)
    /\ [][\A l \in Refs :
             nodes'[layouts'[l].group].isMaster = nodes[layouts[l].group].isMaster]_vars

\* a clone of a registered master and a clone of that clone; the master's flag is still true
C11_Witness ==
    \E id \in LayoutIds : \E c1 \in Refs : \E c2 \in Refs :
       /\ masters[id] # 0
       /\ origin[c1] = masters[id]
       /\ origin[c2] = c1
       /\ nodes[layouts[masters[id]].group].isMaster

\* C12: registerMaster(id, layout) makes layout the entry of id whatever entry
\* id had, getSessionClone(id) clones the entry id has at that time, and a step
\* that changes the registry changes the entry of one id only and no Layout3D
\* and no scene node: earlier clones keep their structure, ids and transforms.
C12_OverwriteReplacesMaster ==
    [][/\ \A id \in LayoutIds : \A l \in Refs : RegisterMaster(id, l) => masters'[id] = l
       /\ \A id \in LayoutIds :
             GetSessionCloneHit(id) => origin'[Len(layouts')] = masters[id]
       /\ masters' # masters =>
             /\ \E id \in LayoutIds : \A other \in LayoutIds \ {id} :
                   masters'[other] = masters[other]
             /\ layouts' = layouts
             /\ nodes' = nodes
             /\ origin' = origin]_vars

\* the entry of id was overwritten: a clone of a Layout3D with that id exists
\* whose source is no longer the entry of id
C12_Witness ==
    \E id \in LayoutIds : \E c \in Refs :
       /\ IsClone(c)
       /\ layouts[origin[c]].id = id
       /\ masters[id] # 0
       /\ masters[id] # origin[c]
       /\ masters[id] > c

\* a placeholder Mesh / a loaded Mesh among the nodes under root, read from
\* the node heap ns, the resource heap rs and the static fields st
PlaceholderIn(ns, st, root) ==
    \E n \in Subtree(ns, root) \ {root} :
       ns[n].geometry # 0 /\ ns[n].geometry = st.placeholderGeometry
LoadedIn(ns, rs, root) ==
    \E n \in Subtree(ns, root) \ {root} :
       ns[n].geometry # 0 /\ rs[ns[n].geometry].kind = "LoadedGeometry"

\* the nodes of Layout3D l with their content, and its entity records
Snapshot(l) == [layout |-> layouts[l], nodes |-> [n \in NodesOf(l) |-> nodes[n]]]

\* C13: a clone() step gives every Furniture of the clone whose source has no
\* loaded model under its root at that time (its load is pending, failed or
\* was never started) a placeholder Mesh and no loaded model under its root;
\* and a fetch that completes on one Layout3D changes no node and no entity of
\* any other Layout3D, so the clone stays as it was made.
C13_CloneDuringLoadKeepsPlaceholder ==
    [][/\ (Len(layouts') = Len(layouts) + 1 /\ origin'[Len(layouts')] # 0) =>
             \A r \in RoomsOf(origin'[Len(layouts')]) :
             \A k \in FurnitureOf(origin'[Len(layouts')], r) :
                ~LoadedUnder(layouts[origin'[Len(layouts')]].rooms[r].furnitureList[k].root)
                   => /\ PlaceholderIn(nodes', statics',
                            layouts'[Len(layouts')].rooms[r].furnitureList[k].root)
                      /\ ~LoadedIn(nodes', resources',
                            layouts'[Len(layouts')].rooms[r].furnitureList[k].root)
       /\ \A l \in Refs :
             (\E t \in 1..Len(loads[l].tasks) :
                 loads[l].tasks[t].fetch = "pending" /\ loads'[l].tasks[t].fetch # "pending")
                => \A c \in Refs \ {l} : Snapshot(c)' = Snapshot(c)]_vars

\* a clone taken between two successful fetches of its source: the Furniture
\* loaded before the clone was made has the model in the clone, the one loaded
\* afterwards still has the placeholder in the clone
C13_Witness ==
    \E c \in Refs :
       /\ IsClone(c)
       /\ \E r \in RoomsOf(c) : \E k1 \in FurnitureOf(c, r) : \E k2 \in FurnitureOf(c, r) :
             /\ LoadedUnder(layouts[origin[c]].rooms[r].furnitureList[k1].root)
             /\ layouts[origin[c]].rooms[r].furnitureList[k1].mesh < layouts[c].group
             /\ LoadedUnder(layouts[origin[c]].rooms[r].furnitureList[k2].root)
             /\ layouts[origin[c]].rooms[r].furnitureList[k2].mesh > layouts[c].group
             /\ PlaceholderUnder(layouts[c].rooms[r].furnitureList[k2].root)
             /\ ~LoadedUnder(layouts[c].rooms[r].furnitureList[k2].root)

\* C14: fromJSON on a description that lacks id, rooms, a room's name or a
\* furniture's name throws a MalformedDescriptionError and creates no Layout3D.
C14_MalformedDescriptionFails ==
    [][\A d \in MalformedDescriptions :
          Hydrate(d) => /\ thrown' = <<"MalformedDescriptionError">>
                        /\ layouts' = layouts]_vars

\* the coordinates a Layout3D's cameraView gives for position and target
CameraValue(l) ==
    IF layouts[l].cameraView = 0 THEN <<>>
    ELSE <<objects[objects[layouts[l].cameraView].position].xyz,
           objects[objects[layouts[l].cameraView].target].xyz>>

\* C15: a step that changes what the cameraView of one Layout3D reads
\* (position or target, or a coordinate inside them) changes the cameraView of
\* no other Layout3D: clone and source do not see each other's writes.
C15_CameraViewCopiedByValue ==
    [][\A l1 \in Refs : \A l2 \in Refs \ {l1} :
          (CameraValue(l1)' # CameraValue(l1) /\ (l2 = origin[l1] \/ l1 = origin[l2]))
             => CameraValue(l2)' = CameraValue(l2)]_vars

Attributes(layout) ==
    [id |-> layout.id, description |-> layout.description,
     rooms |-> [r \in 1..Len(layout.rooms) |->
        [name |-> layout.rooms[r].name,
         width |-> layout.rooms[r].width,
         depth |-> layout.rooms[r].depth,
         furniture |-> [k \in 1..Len(layout.rooms[r].furnitureList) |->
            [name |-> layout.rooms[r].furnitureList[k].name,
             type |-> layout.rooms[r].furnitureList[k].type,
             modelUrl |-> layout.rooms[r].furnitureList[k].modelUrl]]]]]

\* C17: the Layout3D a clone() step creates has the id and description of its
\* source, as many Rooms in the same order with the same name, width and
\* depth, and in each Room as many Furniture in the same order with the same
\* name, type and modelUrl.
C17_CloneIsIsomorphic ==
    [][(Len(layouts') = Len(layouts) + 1 /\ origin'[Len(layouts')] # 0)
          => Attributes(layouts'[Len(layouts')]) = Attributes(layouts[origin'[Len(layouts')]])]_vars

\* a clone of a clone of a Layout3D with a Room of two Furniture
C17_Witness ==
    \E c \in Refs :
       /\ IsClone(c)
       /\ IsClone(origin[c])
       /\ \E r \in RoomsOf(c) : Len(layouts[c].rooms[r].furnitureList) = 2
       /\ Attributes(layouts[c]) = Attributes(layouts[origin[origin[c]]])

\* the geometry and material handles of the subtree rooted at n, node by node
RECURSIVE Handles(_, _)
Handles(ns, n) ==
    [geometry |-> ns[n].geometry, material |-> ns[n].material,
     children |-> [i \in 1..Len(ns[n].children) |-> Handles(ns, ns[n].children[i])]]

\* C18: in a clone() step every Furniture root of the new Layout3D carries,
\* node for node, the geometry and material handles of the source's root
\* (placeholder box or loaded model), and the step creates no geometry and no
\* material: the resource heap is the same after any number of clones.
C18_CloneSharesResources ==
    [][(Len(layouts') = Len(layouts) + 1 /\ origin'[Len(layouts')] # 0)
          => /\ resources' = resources
             /\ \A r \in RoomsOf(origin'[Len(layouts')]) :
                \A k \in FurnitureOf(origin'[Len(layouts')], r) :
                   Handles(nodes', layouts'[Len(layouts')].rooms[r].furnitureList[k].root)
                      = Handles(nodes, layouts[origin'[Len(layouts')]].rooms[r].furnitureList[k].root)]_vars

\* two clones of a Layout3D with a loaded model: both roots hold the source's handles
C18_Witness ==
    \E c1 \in Refs : \E c2 \in Refs \ {c1} :
       /\ IsClone(c1)
       /\ origin[c2] = origin[c1]
       /\ \E r \in RoomsOf(c1) : \E k \in FurnitureOf(c1, r) :
             /\ LoadedUnder(layouts[origin[c1]].rooms[r].furnitureList[k].root)
             /\ Handles(nodes, layouts[c1].rooms[r].furnitureList[k].root)
                   = Handles(nodes, layouts[origin[c1]].rooms[r].furnitureList[k].root)
             /\ Handles(nodes, layouts[c2].rooms[r].furnitureList[k].root)
                   = Handles(nodes, layouts[origin[c1]].rooms[r].furnitureList[k].root)

\* C19: a Layout3D made by clone() has the id of its source, and the
\* userData.entityId of its group is that same id, for a clone of a hydrated
\* Layout3D and for a clone of a clone.
C19_CloneInheritsId ==
    \A c \in Refs :
       IsClone(c) => /\ layouts[c].id = layouts[origin[c]].id
                     /\ nodes[layouts[c].group].entityId = layouts[c].id
                     /\ nodes[layouts[origin[c]].group].entityId = layouts[c].id

\* a clone of a clone of a registered master with that master's id on its root node
C19_Witness ==
    \E id \in LayoutIds : \E c \in Refs :
       /\ masters[id] # 0
       /\ IsClone(c)
       /\ origin[origin[c]] = masters[id]
       /\ layouts[masters[id]].id = id
       /\ nodes[layouts[c].group].entityId = id

\* C20: a step in which a fetch of Layout3D l succeeds leaves that Furniture
\* its root node, with the root's entityId, position, rotation and scale as
\* they were, and afterwards the root's only child is the loaded model,
\* recentred and scaled by 1 / maxDim, with no placeholder Mesh under the root.
C20_LoadKeepsRootReplacesPlaceholder ==
    [][\A l \in Refs : \A t \in 1..Len(loads[l].tasks) :
          (loads[l].tasks[t].fetch = "pending" /\ loads'[l].tasks[t].fetch = "ok")
             => /\ TaskFurniture(l, t)'.root = TaskFurniture(l, t).root
                /\ nodes'[TaskFurniture(l, t).root].entityId = nodes[TaskFurniture(l, t).root].entityId
                /\ nodes'[TaskFurniture(l, t).root].position = nodes[TaskFurniture(l, t).root].position
                /\ nodes'[TaskFurniture(l, t).root].rotation = nodes[TaskFurniture(l, t).root].rotation
                /\ nodes'[TaskFurniture(l, t).root].scale = nodes[TaskFurniture(l, t).root].scale
                /\ nodes'[TaskFurniture(l, t).root].scaleDen = nodes[TaskFurniture(l, t).root].scaleDen
                /\ nodes'[TaskFurniture(l, t).root].children = <<TaskFurniture(l, t)'.mesh>>
                /\ LoadedIn(nodes', resources', TaskFurniture(l, t).root)
                /\ ~PlaceholderIn(nodes', statics', TaskFurniture(l, t).root)
                /\ \E a \in Assets :
                      /\ nodes'[TaskFurniture(l, t)'.mesh].position = VecSub(Zero, a.center)
                      /\ nodes'[TaskFurniture(l, t)'.mesh].scale = VecScale(Q(1), One)
                      /\ nodes'[TaskFurniture(l, t)'.mesh].scaleDen
                            = Max2(a.size[1], Max2(a.size[2], a.size[3]))]_vars

-----------------------------------------------------------------------------
(* Normalization of a loaded asset *)

\* the bounding box of the geometry under the loaded model n
ModelBox(ns, rs, n) == rs[ns[ns[n].children[1]].geometry].box

\* the centre of that bounding box in the frame of the model's parent (the
\* Furniture root), multiplied by Q(1) * scaleDen: a vertex x of the model is
\* drawn at position + scale * x
ModelBoxCenter(ns, rs, n) ==
    << Q(1) * ns[n].scaleDen * ns[n].position[1] + ns[n].scale[1] * ModelBox(ns, rs, n).center[1],
       Q(1) * ns[n].scaleDen * ns[n].position[2] + ns[n].scale[2] * ModelBox(ns, rs, n).center[2],
       Q(1) * ns[n].scaleDen * ns[n].position[3] + ns[n].scale[3] * ModelBox(ns, rs, n).center[3] >>

MaxDim(box) == Max2(box.size[1], Max2(box.size[2], box.size[3]))

\* C21: for every Furniture whose asset has been loaded and normalized, the
\* centre of the asset's bounding box lies at the origin of the Furniture's
\* root node, whatever the centre and the largest dimension of the box are.
C21_CenterAtRootOrigin ==
    \A l \in Refs : \A t \in 1..Len(loads[l].tasks) :
       loads[l].tasks[t].fetch = "ok"
          => ModelBoxCenter(nodes, resources, TaskFurniture(l, t).mesh) = Zero

\* C22: a step in which a fetch succeeds leaves the loaded model with the
\* uniform scale 1 / max(width, height, depth) of its bounding box when that
\* maximum is greater than 0 and with the scale 1 when it is 0, and leaves
\* the scale of the Furniture's root as it was.
C22_ScaleFactor ==
    [][\A l \in Refs : \A t \in 1..Len(loads[l].tasks) :
          (loads[l].tasks[t].fetch = "pending" /\ loads'[l].tasks[t].fetch = "ok")
             => /\ MaxDim(ModelBox(nodes', resources', TaskFurniture(l, t)'.mesh)) > 0
                   => \A i \in 1..3 :
                         nodes'[TaskFurniture(l, t)'.mesh].scale[i]
                            * MaxDim(ModelBox(nodes', resources', TaskFurniture(l, t)'.mesh))
                         = Q(1) * Q(1) * nodes'[TaskFurniture(l, t)'.mesh].scaleDen
                /\ MaxDim(ModelBox(nodes', resources', TaskFurniture(l, t)'.mesh)) = 0
                   => /\ nodes'[TaskFurniture(l, t)'.mesh].scale = One
                      /\ nodes'[TaskFurniture(l, t)'.mesh].scaleDen = 1
                /\ nodes'[TaskFurniture(l, t).root].scale = nodes[TaskFurniture(l, t).root].scale
                /\ nodes'[TaskFurniture(l, t).root].scaleDen = nodes[TaskFurniture(l, t).root].scaleDen]_vars

\* a Layout3D with one model of largest dimension 4 scaled by 1 / 4 under a
\* root of scale 1, and one model of largest dimension 0 left at scale 1
\* under a root that has the scale 2 of its description
C22_Witness ==
    \E l \in Refs : \E t, u \in 1..Len(loads[l].tasks) :
       /\ loads[l].tasks[t].fetch = "ok" /\ loads[l].tasks[u].fetch = "ok"
       /\ MaxDim(ModelBox(nodes, resources, TaskFurniture(l, t).mesh)) = Q(4)
       /\ nodes[TaskFurniture(l, t).mesh].scale = <<Q(4), Q(4), Q(4)>>
       /\ nodes[TaskFurniture(l, t).mesh].scaleDen = Q(4)
       /\ nodes[TaskFurniture(l, t).root].scale = One
       /\ MaxDim(ModelBox(nodes, resources, TaskFurniture(l, u).mesh)) = 0
       /\ nodes[TaskFurniture(l, u).mesh].scale = One
       /\ nodes[TaskFurniture(l, u).root].scale = <<Q(2), Q(2), Q(2)>>

-----------------------------------------------------------------------------
(* The application *)

\* C23: once a master is in the Registry under a layout id, no step starts a
\* fetch of that id's layout and no step registers another master under it:
\* a layout id is fetched, hydrated and asset-loaded at most once.
C23_LoadedOncePerLayoutId ==
    [][\A id \in LayoutIds :
          masters[id] # 0
             => /\ ~(Len(runs') > Len(runs) /\ runs'[Len(runs')].roomId = id)
                /\ masters'[id] = masters[id]]_vars

\* C24: no step changes the Furniture transforms of a master that stays
\* registered, and a handleCreateSession that finds a master shows a new
\* Layout3D whose Furniture transforms are those of that master, whatever
\* has been moved in the sessions before.
C24_ResetRestoresMaster ==
    [][/\ \A id \in LayoutIds :
            (masters[id] # 0 /\ masters'[id] = masters[id])
               => FurnitureTransforms(masters[id])' = FurnitureTransforms(masters[id])
       /\ (calls'.session > calls.session /\ Len(layouts') > Len(layouts))
            => /\ app'.sessionLayout = Len(layouts')
               /\ masters[app.currentRoomId] # 0
               /\ FurnitureTransforms(Len(layouts))'
                     = FurnitureTransforms(masters[app.currentRoomId])]_vars

\* one room selection served, its session moved, then a reset: the session on
\* display is the newest Layout3D and has the master's transforms, while the
\* earlier session still has the moved Furniture
C24_Witness ==
    /\ Len(runs) = 1 /\ runs[1].pc = "done"
    /\ calls.session = 1 /\ calls.transform = 1
    /\ app.sessionLayout = Len(layouts)
    /\ masters[app.currentRoomId] # 0
    /\ origin[app.sessionLayout] = masters[app.currentRoomId]
    /\ FurnitureTransforms(app.sessionLayout) = FurnitureTransforms(masters[app.currentRoomId])
    /\ \E s \in Refs :
          /\ s < app.sessionLayout
          /\ origin[s] = masters[app.currentRoomId]
          /\ FurnitureTransform(s, 1, 1) # FurnitureTransform(masters[app.currentRoomId], 1, 1)

-----------------------------------------------------------------------------
(* Concurrency of clone() and the hydration tasks *)

\* the root of a Furniture holds exactly one subtree, the placeholder's or a
\* loaded model's
OneSubtree(root) ==
    /\ Len(nodes[root].children) = 1
    /\ PlaceholderUnder(root) # LoadedUnder(root)

\* C25: in every Layout3D made by clone(), at any time, every Furniture root
\* holds exactly one subtree, a copy of the placeholder or a copy of the
\* loaded model: never none, never both.
C25_CloneHoldsOneSubtree ==
    \A l \in Refs :
       IsClone(l) => \A r \in RoomsOf(l) : \A k \in FurnitureOf(l, r) :
                        OneSubtree(layouts[l].rooms[r].furnitureList[k].root)

NoFetchPending(l) ==
    \A t \in 1..Len(loads[l].tasks) : loads[l].tasks[t].fetch # "pending"

\* C27: no loadAssets() call ever rejects, and under fair scheduling a
\* loadAssets() call all of whose fetches eventually settle, by success or by
\* failure, eventually resolves.
C27_LoadAssetsResolves ==
    /\ [](\A l \in Refs : loads[l].state # "rejected")
    /\ \A l \in 1..MaxLayouts :
          ([]<>(l \in Refs => NoFetchPending(l)))
             => ((l \in Refs /\ loads[l].state = "pending")
                    ~> (l \in Refs /\ loads[l].state = "resolved"))

\* a loadAssets() call that has resolved after both of its fetches failed
C27_Witness ==
    \E l \in Refs :
       /\ loads[l].state = "resolved"
       /\ Len(loads[l].tasks) = 2
       /\ \A t \in 1..Len(loads[l].tasks) : loads[l].tasks[t].fetch = "failed"

\* the Furniture of Layout3D l
FurnitureIn(l) ==
    UNION {{layouts[l].rooms[r].furnitureList[k] : k \in FurnitureOf(l, r)} : r \in RoomsOf(l)}

\* C28: a Furniture without modelUrl always has the placeholder, and nothing
\* else, under its root, and a hydration task for it has no fetch and a
\* fulfilled promise; a loadAssets() call on a Layout3D whose Furniture all
\* lack a modelUrl changes no node or resource and leaves Promise.all
\* fulfilled at once, with no fetch started.
C28_NoUrlKeepsPlaceholder ==
    /\ [](\A l \in Refs :
            /\ \A f \in FurnitureIn(l) :
                  f.modelUrl = NoUrl
                     => /\ Len(nodes[f.root].children) = 1
                        /\ PlaceholderUnder(f.root)
                        /\ ~LoadedUnder(f.root)
            /\ \A t \in 1..Len(loads[l].tasks) :
                  TaskFurniture(l, t).modelUrl = NoUrl
                     => /\ loads[l].tasks[t].fetch = "none"
                        /\ loads[l].tasks[t].promise = "fulfilled")
    /\ [][\A l \in Refs :
            (/\ loads[l].state # "pending" /\ loads'[l].state = "pending"
             /\ \A f \in FurnitureIn(l) : f.modelUrl = NoUrl)
               => /\ PromiseAll(loads'[l].tasks) = "fulfilled"
                  /\ \A t \in 1..Len(loads'[l].tasks) : loads'[l].tasks[t].fetch = "none"
                  /\ nodes' = nodes /\ resources' = resources]_vars

\* loadAssets() has resolved on a Layout3D whose only Furniture has no
\* modelUrl: no fetch was made and the placeholder is under its root
C28_Witness ==
    \E l \in Refs :
       /\ loads[l].state = "resolved"
       /\ Len(loads[l].tasks) = 1
       /\ TaskFurniture(l, 1).modelUrl = NoUrl
       /\ loads[l].tasks[1].fetch = "none"
       /\ PlaceholderUnder(TaskFurniture(l, 1).root)
       /\ ~LoadedUnder(TaskFurniture(l, 1).root)

-----------------------------------------------------------------------------
(* Independence of the hydration tasks *)

\* the content of the subtree under node n, without the identities of its
\* nodes and resources and without the generated entity ids
RECURSIVE NodeShape(_, _, _)
NodeShape(ns, rs, n) ==
    [type |-> ns[n].type, utype |-> ns[n].utype,
     position |-> ns[n].position, rotation |-> ns[n].rotation,
     scale |-> ns[n].scale, scaleDen |-> ns[n].scaleDen,
     geometry |-> IF ns[n].geometry = 0 THEN <<>> ELSE <<rs[ns[n].geometry]>>,
     material |-> IF ns[n].material = 0 THEN <<>> ELSE <<rs[ns[n].material]>>,
     children |-> [i \in 1..Len(ns[n].children) |-> NodeShape(ns, rs, ns[n].children[i])]]

\* a Layout3D as its scene tree and, per Furniture, the subtree its mesh field holds
LayoutShape(ns, rs, layout) ==
    [group |-> NodeShape(ns, rs, layout.group),
     meshes |-> [r \in 1..Len(layout.rooms) |->
                   [k \in 1..Len(layout.rooms[r].furnitureList) |->
                       NodeShape(ns, rs, layout.rooms[r].furnitureList[k].mesh)]]]

\* the heap before anything is constructed
EmptyHeap == [nodes |-> <<>>, resources |-> <<>>,
              statics |-> [wallGeometry |-> 0, wallMaterial |-> 0,
                           placeholderGeometry |-> 0, placeholderMaterial |-> 0],
              nextId |-> 1, objects |-> <<>>]

\* the hydration tasks run one after the other in the order of the list:
\* task t loads the box boxes[t] when outcomes[t] is "ok", nothing otherwise
RECURSIVE LoadInOrder(_, _, _, _, _)
LoadInOrder(l, tasks, outcomes, boxes, t) ==
    IF t > Len(tasks) THEN l
    ELSE IF outcomes[t] # "ok" THEN LoadInOrder(l, tasks, outcomes, boxes, t + 1)
    ELSE Bind(FurnitureLoaded(l.h, l.v.rooms[tasks[t].room].furnitureList[tasks[t].idx],
                              boxes[t]), LAMBDA f :
              LoadInOrder(Ret(f.h, [l.v EXCEPT !.rooms[tasks[t].room].furnitureList[tasks[t].idx] = f.v]),
                          tasks, outcomes, boxes, t + 1))

\* the Layout3D hydrated from description d and loaded with the given outcomes
LoadedInOrder(d, tasks, outcomes, boxes) ==
    LoadInOrder(Layout3DFromJSON(EmptyHeap, d), tasks, outcomes, boxes, 1)

\* what the fetch of task t of Layout3D l came to, and the box it delivered
Outcomes(l) == [t \in 1..Len(loads[l].tasks) |-> loads[l].tasks[t].fetch]
Delivered(l) ==
    [t \in 1..Len(loads[l].tasks) |->
        IF loads[l].tasks[t].fetch = "ok"
        THEN ModelBox(nodes, resources, TaskFurniture(l, t).mesh)
        ELSE <<>>]

\* Layout3D l after the fetch of task t succeeds with asset a and then the
\* fetch of task u succeeds with asset b, from the current state
AfterBoth(l, t, a, u, b) ==
    Bind(FurnitureLoaded(Heap, TaskFurniture(l, t), a), LAMBDA x :
    Bind(FurnitureLoaded(x.h, TaskFurniture(l, u), b), LAMBDA y :
         LayoutShape(y.h.nodes, y.h.resources,
            [layouts[l] EXCEPT
               !.rooms[loads[l].tasks[t].room].furnitureList[loads[l].tasks[t].idx] = x.v,
               !.rooms[loads[l].tasks[u].room].furnitureList[loads[l].tasks[u].idx] = y.v])))

\* C29: once the first loadAssets() call has resolved on a hydrated Layout3D,
\* the Layout3D is what hydrating its description and running the hydration
\* tasks one by one in list order gives for the same successes, failures and
\* assets, whatever the order in which the fetches completed; and in any
\* loadAssets() call, two pending tasks leave the same Layout3D in whichever
\* order their fetches succeed.
C29_CompletionOrderIrrelevant ==
    \A l \in Refs :
       /\ (origin[l] = 0 /\ loads[l].state = "resolved" /\ calls.load = 1)
             => \A d \in {x \in Descriptions : x.id = layouts[l].id} :
                   \E e \in {LoadedInOrder(d, loads[l].tasks, Outcomes(l), Delivered(l))} :
                      LayoutShape(nodes, resources, layouts[l])
                         = LayoutShape(e.h.nodes, e.h.resources, e.v)
       /\ loads[l].state = "pending"
             => \A t, u \in 1..Len(loads[l].tasks) :
                   (t < u /\ loads[l].tasks[t].fetch = "pending"
                          /\ loads[l].tasks[u].fetch = "pending")
                      => \A a, b \in Boxes :
                            AfterBoth(l, t, a, u, b) = AfterBoth(l, u, b, t, a)

\* loadAssets() has resolved after the second task's fetch completed before
\* the first's, with different assets
C29_Witness ==
    \E l \in Refs :
       /\ origin[l] = 0 /\ loads[l].state = "resolved"
       /\ Len(loads[l].tasks) = 2
       /\ loads[l].tasks[1].fetch = "ok" /\ loads[l].tasks[2].fetch = "ok"
       /\ TaskFurniture(l, 2).mesh < TaskFurniture(l, 1).mesh
       /\ ModelBox(nodes, resources, TaskFurniture(l, 1).mesh)
             # ModelBox(nodes, resources, TaskFurniture(l, 2).mesh)

\* C30: a step that puts a Layout3D into the Registry does so when that
\* Layout3D's loadAssets() has settled with no fetch pending; a step that
\* makes a clone takes it from a Layout3D that is in the Registry after the
\* step; and every session on display was cloned from a Layout3D none of
\* whose hydration tasks is pending.
C30_RegisterAfterLoadCloneAfterRegister ==
    /\ [](app.sessionLayout # 0
            => /\ origin[app.sessionLayout] # 0
               /\ loads[origin[app.sessionLayout]].state \in {"resolved", "rejected"}
               /\ NoFetchPending(origin[app.sessionLayout]))
    /\ [][/\ \A id \in LayoutIds :
               masters'[id] # masters[id]
                  => /\ loads[masters'[id]].state \in {"resolved", "rejected"}
                     /\ NoFetchPending(masters'[id])
          /\ (Len(layouts') > Len(layouts) /\ origin'[Len(layouts')] # 0)
                => /\ origin'[Len(layouts')] \in {masters'[id] : id \in LayoutIds}
                   /\ NoFetchPending(origin'[Len(layouts')])]_vars

\* two overlapping invocations, both served, the one started first finishing
\* last, its master having had a fetch that failed
C30_Witness ==
    /\ Len(runs) = 2 /\ runs[1].pc = "done" /\ runs[2].pc = "done"
    /\ runs[1].roomId # runs[2].roomId
    /\ runs[1].master < runs[2].master
    /\ app.sessionLayout # 0
    /\ origin[app.sessionLayout] = runs[1].master
    /\ \E s \in Refs : origin[s] = runs[2].master /\ s < app.sessionLayout
    /\ \E t \in 1..Len(loads[runs[1].master].tasks) :
          loads[runs[1].master].tasks[t].fetch = "failed"

\* C31: whenever a session is on display, it is a clone of the Layout3D that
\* the Registry holds under the room id currently selected.
C31_SessionOfSelectedRoom ==
    app.sessionLayout # 0
       => /\ masters[app.currentRoomId] # 0
          /\ origin[app.sessionLayout] = masters[app.currentRoomId]

\* the status texts that tell the user a request has failed
ErrorStatuses == {"No 3D layout available", "Backend Server is Offline"}

\* C32: a step in which a handleRoomSelect invocation fails, or in which
\* handleCreateSession finds no master, registers nothing, shows no new
\* session, and leaves an error or an error status on display.
C32_FailureIsShown ==
    [][/\ \A i \in 1..Len(runs) :
            (runs[i].pc # "failed" /\ runs'[i].pc = "failed")
               => /\ masters' = masters
                  /\ app'.sessionLayout = app.sessionLayout
                  /\ app'.error # <<>>
                  /\ app'.status \in ErrorStatuses
       /\ (calls'.session > calls.session /\ thrown' # <<>>)
            => /\ masters' = masters
               /\ app'.sessionLayout = app.sessionLayout
               /\ (app'.error # <<>> \/ app'.status \in ErrorStatuses)]_vars

-----------------------------------------------------------------------------
(* The viewer *)

\* the number of dispose() calls the viewer has made on Layout3D l
DisposeCalls(l) ==
    Cardinality({i \in 1..Len(viewer.disposeCalls) : viewer.disposeCalls[i] = l})

\* the Layout3D the viewer was handed and no longer shows
Discarded == {l \in viewer.handed : app.sessionLayout # l}

\* C33: once React has committed App's state to the viewer, every session
\* Layout3D that was handed to the viewer and is no longer the one on display
\* has had dispose() called on it exactly once.
C33_DiscardedDisposedOnce ==
    InSync => \A l \in Discarded : DisposeCalls(l) = 1

\* C34: a commit in which the viewer replaces the layout it shows disposes no
\* geometry or material that is referenced by a registered master or by the
\* layout being added, and none of the shared Wall / placeholder statics.
C34_RemovalKeepsLiveResources ==
    [][(viewer.mounted /\ viewer'.mounted /\ viewer'.layoutData # viewer.layoutData)
          => \A x \in NewlyDisposed :
                /\ x \notin SharedResources
                /\ \A l \in Registered \cup {app.sessionLayout} : x \notin ResourcesOf(l)]_vars

\* the geometry and material handles under the root group of the session shown
ShownResources ==
    UNION {{nodes[n].geometry, nodes[n].material} :
              n \in Subtree(nodes, layouts[app.sessionLayout].group)} \ {0}

\* C35: once the viewer shows the copy of the session that handleModifySession
\* made (a new object with the same root group), no geometry or material under
\* that group has been disposed.
C35_ModifiedSessionKeepsResources ==
    (InSync /\ app.sessionLayout # 0 /\ app.spread)
       => \A x \in ShownResources : ~resources[x].disposed

\* the children of the viewer's scene
SceneChildren == nodes[viewer.scene].children

\* the Layout3D root groups among them, and the types of the other children
SceneLayoutGroups ==
    {SceneChildren[i] : i \in {j \in 1..Len(SceneChildren) :
                                  nodes[SceneChildren[j]].utype = "Layout3D"}}
SceneEnvironment ==
    {nodes[SceneChildren[i]].type : i \in {j \in 1..Len(SceneChildren) :
                                              nodes[SceneChildren[j]].utype = ""}}

\* C36: once the viewer has processed the latest layoutData, its scene holds
\* exactly one layout root group, the group of that layoutData, next to the
\* floor, the grid and the three lights; also when the layout has no id.
C36_OneLayoutGroupInScene ==
    (viewer.mounted /\ InSync)
       => /\ SceneLayoutGroups = {layouts[app.sessionLayout].group}
          /\ SceneEnvironment = {"Mesh", "GridHelper", "AmbientLight",
                                 "HemisphereLight", "DirectionalLight"}
          /\ Len(SceneChildren) = 6

-----------------------------------------------------------------------------
(* Clones: content of a Furniture root, transforms, the Registry *)

\* C37: for every Furniture of every Layout3D, hydrated or cloned, before or
\* after its model has loaded, the children of furniture.root are exactly
\* furniture.mesh.
C37_MeshIsTheContentOfRoot ==
    \A l \in Refs : \A f \in FurnitureIn(l) : nodes[f.root].children = <<f.mesh>>

\* position, rotation and scale of node n
TransformOf(n) ==
    <<nodes[n].position, nodes[n].rotation, nodes[n].scale, nodes[n].scaleDen>>

\* the root group, the Room groups and the Furniture roots of Layout3D c have the
\* transforms of those of Layout3D s
SameTransforms(c, s) ==
    /\ TransformOf(layouts[c].group) = TransformOf(layouts[s].group)
    /\ \A r \in RoomsOf(c) :
          /\ TransformOf(layouts[c].rooms[r].group) = TransformOf(layouts[s].rooms[r].group)
          /\ \A k \in FurnitureOf(c, r) :
                TransformOf(layouts[c].rooms[r].furnitureList[k].root)
                   = TransformOf(layouts[s].rooms[r].furnitureList[k].root)

\* C38: in the state right after a clone() the Furniture roots, the Room groups
\* and the root group of the clone have the position, rotation and scale of
\* those of its source.
C38_CloneKeepsTransforms ==
    [][(Len(layouts') > Len(layouts) /\ origin'[Len(layouts')] # 0)
          => SameTransforms(Len(layouts), origin[Len(layouts)])']_vars

\* C39: a step that changes LayoutRegistry.masters changes the entry of one id,
\* to a Layout3D, and nothing else (it is a registerMaster); so a session
\* clone, found or not, a clone(), a loadAssets() and a dispose() leave the
\* Registry as it was. No step removes an entry.
C39_RegistryFrame ==
    [][/\ masters' # masters
            => /\ \E id \in LayoutIds :
                     /\ masters'[id] \in Refs
                     /\ \A other \in LayoutIds \ {id} : masters'[other] = masters[other]
               /\ UNCHANGED <<nodes, resources, statics, nextId, objects, layouts,
                              loads, origin, disposed>>
       /\ \A id \in LayoutIds : masters[id] # 0 => masters'[id] # 0]_vars

\* a registered master has been loaded, cloned and disposed, another id has been
\* asked for and not found, and the entry is still there
C39_Witness ==
    \E id \in LayoutIds :
       /\ masters[id] # 0
       /\ masters[id] \in disposed
       /\ loads[masters[id]].state = "resolved"
       /\ \E c \in Refs : origin[c] = masters[id]
       /\ \E other \in LayoutIds \ {id} : thrown = NotFound(other)

=============================================================================
